---- MODULE Spec2Model ----
(***************************************************************************)
(* ChurnKnowledgeGraph (src/src/core/knowledge_graph.py): a directed,      *)
(* attributed graph built from a table of churned-customer records, its    *)
(* query methods and its pickle persistence.                               *)
(*                                                                         *)
(* Python values are modelled as follows.                                  *)
(*   - a str used as a node id or a dict key is a TLA+ string;             *)
(*   - a value held in a table cell or in an attribute dict is a value     *)
(*     record: Str(s) for a str, Flt(n) for a float (n is the value in     *)
(*     hundredths, so Flt(1234567) is 12345.67) and NaN for a missing      *)
(*     cell;                                                               *)
(*   - a dict is a function from keys to values; an insertion-ordered      *)
(*     dict whose order is observable is a sequence of keys plus a         *)
(*     function;                                                           *)
(*   - a list is a sequence.                                               *)
(***************************************************************************)
EXTENDS Integers, Sequences, FiniteSets, TLC

VARIABLES
    df,            \* the table handed to build_from_dataframe
    graph,         \* self.graph, the networkx DiGraph
    entity_types,  \* self.entity_types, the per-type identifier sets
    files,         \* the file system: path -> pickled graph, or NoFile
    last,          \* the last call on the instance: its name, arguments,
                   \* returned value and raised exception
    agent,         \* the tools the agents were constructed with
                   \* (rag_retriever, knowledge_graph, tavily_search), or
                   \* None before any agent is constructed
    flow           \* the workflow (compiled StateGraph) being run: its
                   \* position, its state channels, the nodes it has run
                   \* and, at the end, the value returned to the caller

vars == <<df, graph, entity_types, files, last, agent, flow>>

\* the variables of the agents
appvars == <<agent, flow>>

-----------------------------------------------------------------------------
(* Python values *)

Str(s) == [str |-> s]
Flt(n) == [flt |-> n]
NaN == [nan |-> TRUE]

\* isinstance(v, str)
IsStr(v) == DOMAIN v = {"str"}

\* pd.notna(v)
NotNa(v) == v # NaN

\* bool(v) of a table cell: a str is truthy unless empty, a float unless 0.0
\* (NaN is a truthy float)
Truthy(v) ==
    IF IsStr(v) THEN v.str # ""
    ELSE IF v = NaN THEN TRUE
    ELSE v.flt # 0

\* str.format of a cell inside an f-string (cells of the id columns are str)
Fmt(v) == v.str

-----------------------------------------------------------------------------
(* str methods, character by character *)

Char(s, i) == SubSeq(s, i, i)

\* s.replace(c, r) for a one-character c
RECURSIVE ReplaceChar(_, _, _)
ReplaceChar(s, c, r) ==
    IF Len(s) = 0 THEN ""
    ELSE (IF Char(s, 1) = c THEN r ELSE Char(s, 1))
         \o ReplaceChar(SubSeq(s, 2, Len(s)), c, r)

\* s.split(c) for a one-character c: the pieces between the separators,
\* empty pieces included
RECURSIVE SplitAcc(_, _, _, _)
SplitAcc(s, c, i, cur) ==
    IF i > Len(s) THEN <<cur>>
    ELSE IF Char(s, i) = c THEN <<cur>> \o SplitAcc(s, c, i + 1, "")
    ELSE SplitAcc(s, c, i + 1, cur \o Char(s, i))

Split(s, c) == SplitAcc(s, c, 1, "")

\* the characters of Latin-1 for which str.isspace() holds: space, tab, newline,
\* carriage return, form feed, and U+000B, U+001C..U+001F, U+0085, U+00A0
Whitespace == {" ", "\t", "\n", "\r", "\f", "", "", "", "", "", "", " "}

\* s.strip()
RECURSIVE LStrip(_)
LStrip(s) ==
    IF Len(s) > 0 /\ Char(s, 1) \in Whitespace
    THEN LStrip(SubSeq(s, 2, Len(s)))
    ELSE s

RECURSIVE RStrip(_)
RStrip(s) ==
    IF Len(s) > 0 /\ Char(s, Len(s)) \in Whitespace
    THEN RStrip(SubSeq(s, 1, Len(s) - 1))
    ELSE s

Strip(s) == RStrip(LStrip(s))

\* s.startswith(p)
StartsWith(s, p) == Len(s) >= Len(p) /\ SubSeq(s, 1, Len(p)) = p

\* s.replace(old, new) for a non-empty old: every occurrence of old, found
\* from the left without overlap, gives way to new
RECURSIVE ReplaceFrom(_, _, _, _)
ReplaceFrom(s, old, new, i) ==
    IF i > Len(s) THEN ""
    ELSE IF i + Len(old) - 1 <= Len(s) /\ SubSeq(s, i, i + Len(old) - 1) = old
    THEN new \o ReplaceFrom(s, old, new, i + Len(old))
    ELSE Char(s, i) \o ReplaceFrom(s, old, new, i + 1)

\* (s is evaluated once, then scanned)
Replace(s, old, new) ==
    CHOOSE r \in {ReplaceFrom(text, old, new, 1) : text \in {s}} : TRUE

\* c.lower() of one character: the strings of the model are over Latin-1
\* (the characters up to U+00FF), whose letters with a lower-case form are
\* A to Z and U+00C0 to U+00DE without the multiplication sign U+00D7
LowerChar(c) ==
    CASE c = "A" -> "a" [] c = "B" -> "b" [] c = "C" -> "c"
      [] c = "D" -> "d" [] c = "E" -> "e" [] c = "F" -> "f"
      [] c = "G" -> "g" [] c = "H" -> "h" [] c = "I" -> "i"
      [] c = "J" -> "j" [] c = "K" -> "k" [] c = "L" -> "l"
      [] c = "M" -> "m" [] c = "N" -> "n" [] c = "O" -> "o"
      [] c = "P" -> "p" [] c = "Q" -> "q" [] c = "R" -> "r"
      [] c = "S" -> "s" [] c = "T" -> "t" [] c = "U" -> "u"
      [] c = "V" -> "v" [] c = "W" -> "w" [] c = "X" -> "x"
      [] c = "Y" -> "y" [] c = "Z" -> "z" [] c = "À" -> "à"
      [] c = "Á" -> "á" [] c = "Â" -> "â" [] c = "Ã" -> "ã"
      [] c = "Ä" -> "ä" [] c = "Å" -> "å" [] c = "Æ" -> "æ"
      [] c = "Ç" -> "ç" [] c = "È" -> "è" [] c = "É" -> "é"
      [] c = "Ê" -> "ê" [] c = "Ë" -> "ë" [] c = "Ì" -> "ì"
      [] c = "Í" -> "í" [] c = "Î" -> "î" [] c = "Ï" -> "ï"
      [] c = "Ð" -> "ð" [] c = "Ñ" -> "ñ" [] c = "Ò" -> "ò"
      [] c = "Ó" -> "ó" [] c = "Ô" -> "ô" [] c = "Õ" -> "õ"
      [] c = "Ö" -> "ö" [] c = "Ø" -> "ø" [] c = "Ù" -> "ù"
      [] c = "Ú" -> "ú" [] c = "Û" -> "û" [] c = "Ü" -> "ü"
      [] c = "Ý" -> "ý" [] c = "Þ" -> "þ" [] OTHER -> c

RECURSIVE LowerFrom(_, _)
LowerFrom(s, i) ==
    IF i > Len(s) THEN "" ELSE LowerChar(Char(s, i)) \o LowerFrom(s, i + 1)

\* s.lower()
Lower(s) == LowerFrom(s, 1)

-----------------------------------------------------------------------------
(* float(str) of a text over Latin-1: optional whitespace around            *)
(*   [sign] (inf | infinity | nan)              in any letter case, or      *)
(*   [sign] (digitpart [. [digitpart]] | . digitpart) [(e | E) [sign] digitpart] *)
(* where a digitpart is digits with single underscores between them; any    *)
(* other text raises ValueError.  A finite value is held exactly, in        *)
(* hundredths: an integer when it is a whole number of hundredths, the      *)
(* fraction [num, den] in lowest terms otherwise.  The tables of the model  *)
(* hold whole hundredths only, and the arithmetic on them is exact.         *)

Digits == {"0", "1", "2", "3", "4", "5", "6", "7", "8", "9"}

DigitVal(c) ==
    CASE c = "0" -> 0 [] c = "1" -> 1 [] c = "2" -> 2 [] c = "3" -> 3
      [] c = "4" -> 4 [] c = "5" -> 5 [] c = "6" -> 6 [] c = "7" -> 7
      [] c = "8" -> 8 [] c = "9" -> 9

IsDigits(s) == \A i \in 1..Len(s) : Char(s, i) \in Digits

RECURSIVE ToNat(_)
ToNat(s) ==
    IF Len(s) = 0 THEN 0
    ELSE 10 * ToNat(SubSeq(s, 1, Len(s) - 1)) + DigitVal(Char(s, Len(s)))

\* the whitespace float() drops around the text: the ASCII characters of C's
\* isspace, and U+0085 and U+00A0, which it reads as spaces (U+001C..U+001F
\* are whitespace to str.strip() but not to float())
FloatWhitespace == Whitespace \ {"", "", "", ""}

RECURSIVE FloatStrip(_, _, _)
FloatStrip(s, i, j) ==
    IF i <= j /\ Char(s, i) \in FloatWhitespace THEN FloatStrip(s, i + 1, j)
    ELSE IF i <= j /\ Char(s, j) \in FloatWhitespace THEN FloatStrip(s, i, j - 1)
    ELSE SubSeq(s, i, j)

\* digits with single underscores between them
IsDigitPart(s) ==
    /\ Len(s) > 0
    /\ \A i \in 1..Len(s) :
          \/ Char(s, i) \in Digits
          \/ /\ Char(s, i) = "_"
             /\ 1 < i /\ i < Len(s)
             /\ Char(s, i - 1) \in Digits /\ Char(s, i + 1) \in Digits

RECURSIVE Pow10(_)
Pow10(n) == IF n = 0 THEN 1 ELSE 10 * Pow10(n - 1)

RECURSIVE Gcd(_, _)
Gcd(a, b) == IF b = 0 THEN a ELSE Gcd(b, a % b)

\* float('inf') and float('nan'), as values of ParseFloat
Infinity(sgn) == [inf |-> sgn]

\* sgn * digits * 10^scale hundredths
Hundredths(sgn, digits, scale) ==
    IF digits = 0 THEN 0
    ELSE IF scale >= 0 THEN sgn * digits * Pow10(scale)
    ELSE LET den == Pow10(-scale)
             g == Gcd(digits, den)
         IN  IF den = g THEN sgn * (digits \div g)
             ELSE [num |-> sgn * (digits \div g), den |-> den \div g]

\* ValueError: could not convert string to float
FloatError == [ok |-> FALSE, val |-> 0]

\* the number of the digit parts ip and fp around the point and of the
\* exponent ex, which is there when has_exp
FloatNumber(sgn, ip, fp, has_exp, ex) ==
    LET exsigned == Len(ex) > 0 /\ Char(ex, 1) \in {"+", "-"}
        exdigits == IF exsigned THEN SubSeq(ex, 2, Len(ex)) ELSE ex
    IN  IF /\ ip = "" \/ IsDigitPart(ip)
           /\ fp = "" \/ IsDigitPart(fp)
           /\ Len(ip) + Len(fp) > 0
           /\ has_exp => IsDigitPart(exdigits)
        THEN [ok |-> TRUE,
              val |-> Hundredths(
                          sgn,
                          ToNat(ReplaceChar(ip, "_", "") \o ReplaceChar(fp, "_", "")),
                          (IF ~has_exp THEN 0
                           ELSE IF Char(ex, 1) = "-"
                           THEN -ToNat(ReplaceChar(exdigits, "_", ""))
                           ELSE ToNat(ReplaceChar(exdigits, "_", "")))
                          - Len(ReplaceChar(fp, "_", "")) + 2)]
        ELSE FloatError

\* the number of a lower-case text without its sign: halves are its parts
\* around the letter e, mantissa the parts of the first around the point
FloatMantissa(sgn, halves, mantissa) ==
    IF Len(halves) \in {1, 2} /\ Len(mantissa) \in {1, 2}
    THEN FloatNumber(sgn, mantissa[1],
                     IF Len(mantissa) = 2 THEN mantissa[2] ELSE "",
                     Len(halves) = 2,
                     IF Len(halves) = 2 THEN halves[2] ELSE "")
    ELSE FloatError

\* the value of a lower-case text without its sign
FloatBody(sgn, body) ==
    IF body \in {"inf", "infinity"} THEN [ok |-> TRUE, val |-> Infinity(sgn)]
    ELSE IF body = "nan" THEN [ok |-> TRUE, val |-> NaN]
    ELSE CHOOSE r \in {FloatMantissa(sgn, halves, Split(halves[1], ".")) :
                          halves \in {Split(body, "e")}} : TRUE

\* the value of a text without the whitespace around it
FloatSigned(t) ==
    IF Len(t) > 0 /\ Char(t, 1) \in {"+", "-"}
    THEN CHOOSE r \in {FloatBody(IF Char(t, 1) = "-" THEN -1 ELSE 1, body) :
                          body \in {Lower(SubSeq(t, 2, Len(t)))}} : TRUE
    ELSE CHOOSE r \in {FloatBody(1, body) : body \in {Lower(t)}} : TRUE

\* the result of float(s): [ok |-> TRUE, val |-> hundredths] or a ValueError;
\* each part of the text is taken once and handed on
ParseFloat(s) ==
    CHOOSE r \in {FloatSigned(t) : t \in {FloatStrip(s, 1, Len(s))}} : TRUE

-----------------------------------------------------------------------------
(* networkx.DiGraph: node holds the node ids in insertion order, attr the   *)
(* attribute dict of each node, succ and pred the successors and            *)
(* predecessors of each node in insertion order, eattr the attribute dict   *)
(* of each edge.                                                            *)

EmptyGraph ==
    [node |-> <<>>, attr |-> <<>>, succ |-> <<>>, pred |-> <<>>, eattr |-> <<>>]

\* n in G
HasNode(g, n) == n \in DOMAIN g.attr

HasEdge(g, u, v) == <<u, v>> \in DOMAIN g.eattr

\* add_node that lists the node again when it is already there
AddNodeAlways(g, n, kw) ==
    [g EXCEPT !.node = Append(@, n),
              !.attr = (n :> (IF HasNode(g, n) THEN kw @@ g.attr[n] ELSE kw)) @@ @,
              !.succ = @ @@ (n :> <<>>),
              !.pred = @ @@ (n :> <<>>)]

\* add_node that leaves the attributes of a node that is already there
AddNodeKeepFirst(g, n, kw) ==
    IF HasNode(g, n)
    THEN [g EXCEPT !.attr[n] = @ @@ kw]
    ELSE [g EXCEPT !.node = Append(@, n),
                   !.attr = @ @@ (n :> kw),
                   !.succ = @ @@ (n :> <<>>),
                   !.pred = @ @@ (n :> <<>>)]

\* G.add_node(n, **kw): a new node, or an update of the node's attributes
AddNode(g, n, kw) ==
    IF HasNode(g, n)
    THEN [g EXCEPT !.attr[n] = kw @@ @]
    ELSE [g EXCEPT !.node = Append(@, n),
                   !.attr = @ @@ (n :> kw),
                   !.succ = @ @@ (n :> <<>>),
                   !.pred = @ @@ (n :> <<>>)]

\* add_edge that lists the end points again when the edge is already
\* there, as a parallel edge of a multigraph would be
AddEdgeParallel(g, u, v, kw) ==
    LET g1 == IF HasNode(g, u) THEN g ELSE AddNode(g, u, <<>>)
        g2 == IF HasNode(g1, v) THEN g1 ELSE AddNode(g1, v, <<>>)
    IN  [[[g2 EXCEPT !.succ[u] = Append(@, v)]
              EXCEPT !.pred[v] = Append(@, u)]
              EXCEPT !.eattr = (<<u, v>> :> kw) @@ @]

\* G.add_edge(u, v, **kw): absent end points are created without
\* attributes; an existing edge keeps its place and has its attributes
\* updated
AddEdge(g, u, v, kw) ==
    LET g1 == IF HasNode(g, u) THEN g ELSE AddNode(g, u, <<>>)
        g2 == IF HasNode(g1, v) THEN g1 ELSE AddNode(g1, v, <<>>)
    IN  IF HasEdge(g2, u, v)
        THEN [g2 EXCEPT !.eattr[<<u, v>>] = kw @@ @]
        ELSE [[[g2 EXCEPT !.succ[u] = Append(@, v)]
                   EXCEPT !.pred[v] = Append(@, u)]
                   EXCEPT !.eattr = @ @@ (<<u, v>> :> kw)]

\* G.number_of_nodes(), G.number_of_edges()
NumberOfNodes(g) == Len(g.node)
NumberOfEdges(g) == Cardinality(DOMAIN g.eattr)

\* Python's None, and d.get(key): the value, or None
None == [none |-> TRUE]
Get(d, key) == IF key \in DOMAIN d THEN d[key] ELSE None

-----------------------------------------------------------------------------
(* ChurnKnowledgeGraph.__init__ *)

EntityTypeNames == {"Customer", "Segment", "ChurnReason", "Competitor", "Product"}

NewInstance ==
    [graph |-> EmptyGraph,
     entity_types |-> [t \in EntityTypeNames |-> {}]]

\* an entity pass that adds the node and leaves the index as it is
AddEntityUnindexed(self, node_id, kw, t, ident) ==
    [graph |-> AddNode(self.graph, node_id, kw),
     entity_types |-> self.entity_types]

\* self.graph.add_node(node_id, **kw); self.entity_types[t].add(ident)
AddEntity(self, node_id, kw, t, ident) ==
    [graph |-> AddNode(self.graph, node_id, kw),
     entity_types |-> [self.entity_types EXCEPT ![t] = @ \cup {ident}]]

\* the outcome of a pass: the instance as the pass leaves it and the
\* exception it raised, if any
Ok(self) == [self |-> self, raised |-> "none"]
Raise(self, exc) == [self |-> self, raised |-> exc]

-----------------------------------------------------------------------------
(* _extract_customers *)

\* the Amount clean-up: float(amount.replace('$', '').replace(',', '')) of
\* a str, float(amount) of a number, 0.0 of a missing cell
ArrLost(amount) ==
    IF IsStr(amount)
    THEN ParseFloat(ReplaceChar(ReplaceChar(amount.str, "$", ""), ",", ""))
    ELSE IF NotNa(amount) THEN [ok |-> TRUE, val |-> amount.flt]
    ELSE [ok |-> TRUE, val |-> 0]

\* float(row['Tenure (years)']) if pd.notna(...) else 0.0
TenureYears(tenure) ==
    IF NotNa(tenure)
    THEN (IF IsStr(tenure) THEN ParseFloat(tenure.str)
          ELSE [ok |-> TRUE, val |-> tenure.flt])
    ELSE [ok |-> TRUE, val |-> 0]

CustomerAttrs(row, arr_lost, tenure_years) ==
    [type |-> Str("Customer"),
     segment |-> row["Account Segment"],
     tenure_years |-> Flt(tenure_years),
     arr_lost |-> Flt(arr_lost),
     churn_date |-> row["Close Date"],
     first_win_date |-> row["First Win Date"],
     products |-> IF NotNa(row["Products (Rollup)"])
                  THEN row["Products (Rollup)"] ELSE Str(""),
     churn_narrative |-> IF NotNa(row["Lost Opportunity Details"])
                         THEN row["Lost Opportunity Details"] ELSE Str("")]

\* the loop over the rows from row i on; a failing float() leaves the loop
\* with the rows before it added
RECURSIVE ExtractCustomersFrom(_, _, _)
ExtractCustomersFrom(self, d, i) ==
    IF i > Len(d) THEN Ok(self)
    ELSE LET row == d[i]
             customer_id == Fmt(row["Account Name"])
             arr == ArrLost(row["Amount"])
             ten == TenureYears(row["Tenure (years)"])
         IN  IF ~arr.ok \/ ~ten.ok THEN Raise(self, "ValueError")
             ELSE ExtractCustomersFrom(
                      AddEntity(self, customer_id,
                                CustomerAttrs(row, arr.val, ten.val),
                                "Customer", customer_id),
                      d, i + 1)

ExtractCustomers(self, d) == ExtractCustomersFrom(self, d, 1)

-----------------------------------------------------------------------------
(* df[col].unique(): the distinct cells of a column, in order of first      *)
(* appearance                                                               *)

RECURSIVE UniqueFrom(_, _, _, _)
UniqueFrom(d, col, i, seen) ==
    IF i > Len(d) THEN seen
    ELSE UniqueFrom(d, col, i + 1,
                    IF \E k \in 1..Len(seen) : seen[k] = d[i][col]
                    THEN seen ELSE Append(seen, d[i][col]))

Unique(d, col) == UniqueFrom(d, col, 1, <<>>)

-----------------------------------------------------------------------------
(* node ids *)

SegmentNode(segment) == "SEGMENT:" \o segment
ReasonNode(reason) == "REASON:" \o reason
\* a sub-reason node id that shares the primary reasons' prefix
SubReasonNodeShared(sub_reason) == "REASON:" \o sub_reason

SubReasonNode(sub_reason) == "SUBREASON:" \o sub_reason
CompetitorNode(comp) == "COMPETITOR:" \o comp
ProductNode(product) == "PRODUCT:" \o product

-----------------------------------------------------------------------------
(* _extract_segments *)

SegmentKept(segment) == NotNa(segment) /\ Truthy(segment)

RECURSIVE ExtractSegmentsFrom(_, _, _)
ExtractSegmentsFrom(self, segments, i) ==
    IF i > Len(segments) THEN self
    ELSE ExtractSegmentsFrom(
             IF SegmentKept(segments[i])
             THEN AddEntity(self, SegmentNode(Fmt(segments[i])),
                            [type |-> Str("Segment"), name |-> segments[i]],
                            "Segment", Fmt(segments[i]))
             ELSE self,
             segments, i + 1)

ExtractSegments(self, d) ==
    ExtractSegmentsFrom(self, Unique(d, "Account Segment"), 1)

-----------------------------------------------------------------------------
(* _extract_churn_reasons *)

PrimaryReasonKept(reason) == NotNa(reason) /\ Truthy(reason)

SubReasonKept(sub_reason) ==
    NotNa(sub_reason) /\ sub_reason # Str("N/A") /\ Truthy(sub_reason)

RECURSIVE ExtractPrimaryFrom(_, _, _)
ExtractPrimaryFrom(self, reasons, i) ==
    IF i > Len(reasons) THEN self
    ELSE ExtractPrimaryFrom(
             IF PrimaryReasonKept(reasons[i])
             THEN AddEntity(self, ReasonNode(Fmt(reasons[i])),
                            [type |-> Str("ChurnReason"), name |-> reasons[i],
                             reason_type |-> Str("primary")],
                            "ChurnReason", Fmt(reasons[i]))
             ELSE self,
             reasons, i + 1)

RECURSIVE ExtractSubFrom(_, _, _)
ExtractSubFrom(self, reasons, i) ==
    IF i > Len(reasons) THEN self
    ELSE ExtractSubFrom(
             IF SubReasonKept(reasons[i])
             THEN AddEntity(self, SubReasonNode(Fmt(reasons[i])),
                            [type |-> Str("ChurnReason"), name |-> reasons[i],
                             reason_type |-> Str("sub")],
                            "ChurnReason", Fmt(reasons[i]))
             ELSE self,
             reasons, i + 1)

ExtractChurnReasons(self, d) ==
    ExtractSubFrom(
        ExtractPrimaryFrom(self, Unique(d, "Primary Outcome Reason"), 1),
        Unique(d, "Outcome Sub Reason"), 1)

-----------------------------------------------------------------------------
(* _extract_competitors *)

CompetitorSentinels == {Str("None mentioned"), Str("N/A"), Str("")}

\* CompetitorKept without the placeholder list
CompetitorKeptAny(comp) == NotNa(comp) /\ Truthy(comp)

CompetitorKept(comp) ==
    NotNa(comp) /\ Truthy(comp) /\ comp \notin CompetitorSentinels

RECURSIVE ExtractCompetitorsFrom(_, _, _)
ExtractCompetitorsFrom(self, comps, i) ==
    IF i > Len(comps) THEN self
    ELSE ExtractCompetitorsFrom(
             IF CompetitorKept(comps[i])
             THEN AddEntity(self, CompetitorNode(Fmt(comps[i])),
                            [type |-> Str("Competitor"), name |-> comps[i]],
                            "Competitor", Fmt(comps[i]))
             ELSE self,
             comps, i + 1)

ExtractCompetitors(self, d) ==
    ExtractCompetitorsFrom(
        ExtractCompetitorsFrom(self, Unique(d, "Competitor 1"), 1),
        Unique(d, "Competitor 2"), 1)

-----------------------------------------------------------------------------
(* _extract_products *)

\* [p.strip() for p in products_str.replace(';', ',').split(',')]
RECURSIVE StripAll(_)
StripAll(pieces) ==
    IF Len(pieces) = 0 THEN <<>>
    ELSE <<Strip(Head(pieces))>> \o StripAll(Tail(pieces))

\* the tokens of a split on ',' alone
ProductTokensCommaOnly(products_str) == StripAll(Split(products_str, ","))

ProductTokens(products_str) ==
    StripAll(Split(ReplaceChar(products_str, ";", ","), ","))

ProductSentinels == {"N/A", "None", ""}

ProductKept(product) == product # "" /\ product \notin ProductSentinels

\* the tokens of one row
RECURSIVE AddProductsFrom(_, _, _)
AddProductsFrom(self, products, k) ==
    IF k > Len(products) THEN self
    ELSE AddProductsFrom(
             IF ProductKept(products[k])
             THEN AddEntity(self, ProductNode(products[k]),
                            [type |-> Str("Product"), name |-> Str(products[k])],
                            "Product", products[k])
             ELSE self,
             products, k + 1)

\* the loop over the rows; a products cell that is neither missing, falsy
\* nor a str has no replace method (AttributeError)
RECURSIVE ExtractProductsFrom(_, _, _)
ExtractProductsFrom(self, d, i) ==
    IF i > Len(d) THEN Ok(self)
    ELSE LET products_str == d[i]["Products (Rollup)"]
         IN  IF NotNa(products_str) /\ Truthy(products_str)
             THEN IF ~IsStr(products_str) THEN Raise(self, "AttributeError")
                  ELSE ExtractProductsFrom(
                           AddProductsFrom(self,
                               ProductTokens(products_str.str), 1),
                           d, i + 1)
             ELSE ExtractProductsFrom(self, d, i + 1)

ExtractProducts(self, d) == ExtractProductsFrom(self, d, 1)

-----------------------------------------------------------------------------
(* _build_relationships *)

\* RelSegmentKept without the truthiness test
RelSegmentKeptNotNa(segment) == NotNa(segment)

RelSegmentKept(segment) == NotNa(segment) /\ Truthy(segment)

RelPrimaryKept(primary_reason) ==
    NotNa(primary_reason) /\ Truthy(primary_reason)

RelSubKept(sub_reason) ==
    NotNa(sub_reason) /\ sub_reason # Str("N/A") /\ Truthy(sub_reason)

RelCompetitorSentinels == {Str("None mentioned"), Str("N/A"), Str("")}

\* the competitor edge test without the placeholder list
RelCompetitorKeptNotNa(comp) == NotNa(comp)

RelCompetitorKept(comp) == NotNa(comp) /\ comp \notin RelCompetitorSentinels

RelProductSentinels == {"N/A", "None", ""}

RelProductKept(product) == product # "" /\ product \notin RelProductSentinels

\* a segment edge target without the node id prefix
RelSegmentTargetBare(segment) == Fmt(segment)

\* the edge targets of each kind
RelSegmentTarget(segment) == SegmentNode(Fmt(segment))
RelPrimaryTarget(primary_reason) == ReasonNode(Fmt(primary_reason))
RelSubTarget(sub_reason) == SubReasonNode(Fmt(sub_reason))
RelCompetitorTarget(comp) == CompetitorNode(Fmt(comp))

RelSegment(g, customer_id, row) ==
    IF RelSegmentKept(row["Account Segment"])
    THEN AddEdge(g, customer_id, RelSegmentTarget(row["Account Segment"]),
                 [relationship |-> Str("BELONGS_TO"),
                  type |-> Str("customer_segment")])
    ELSE g

RelPrimary(g, customer_id, row) ==
    IF RelPrimaryKept(row["Primary Outcome Reason"])
    THEN AddEdge(g, customer_id,
                 RelPrimaryTarget(row["Primary Outcome Reason"]),
                 [relationship |-> Str("CHURNED_DUE_TO"),
                  type |-> Str("customer_reason"),
                  churn_date |-> row["Close Date"]])
    ELSE g

RelSub(g, customer_id, row) ==
    IF RelSubKept(row["Outcome Sub Reason"])
    THEN AddEdge(g, customer_id, RelSubTarget(row["Outcome Sub Reason"]),
                 [relationship |-> Str("CHURNED_DUE_TO"),
                  type |-> Str("customer_subreason")])
    ELSE g

\* the competitor edge labelled as the reason edges are
RelCompetitorAsChurned(g, customer_id, comp) ==
    IF RelCompetitorKept(comp)
    THEN AddEdge(g, customer_id, RelCompetitorTarget(comp),
                 [relationship |-> Str("CHURNED_DUE_TO"),
                  type |-> Str("customer_competitor")])
    ELSE g

RelCompetitor(g, customer_id, comp) ==
    IF RelCompetitorKept(comp)
    THEN AddEdge(g, customer_id, RelCompetitorTarget(comp),
                 [relationship |-> Str("SWITCHED_TO"),
                  type |-> Str("customer_competitor")])
    ELSE g

RECURSIVE RelProductsFrom(_, _, _, _)
RelProductsFrom(g, customer_id, products, k) ==
    IF k > Len(products) THEN g
    ELSE RelProductsFrom(
             IF RelProductKept(products[k])
             THEN AddEdge(g, customer_id, ProductNode(products[k]),
                          [relationship |-> Str("USED_PRODUCT"),
                           type |-> Str("customer_product")])
             ELSE g,
             customer_id, products, k + 1)

\* the edges of one row, given up when a reason or competitor cell of the
\* row is missing
RelRowAbortOnMissing(g, row) ==
    LET customer_id == Fmt(row["Account Name"])
    IN  IF \E col \in {"Account Segment", "Primary Outcome Reason",
                       "Outcome Sub Reason", "Competitor 1", "Competitor 2"} :
               row[col] = NaN
        THEN g
        ELSE RelCompetitor(
                 RelCompetitor(
                     RelSub(RelPrimary(RelSegment(g, customer_id, row),
                                       customer_id, row),
                            customer_id, row),
                     customer_id, row["Competitor 1"]),
                 customer_id, row["Competitor 2"])

\* the edges of one row, up to the products
RelRow(g, row) ==
    LET customer_id == Fmt(row["Account Name"])
    IN  RelCompetitor(
            RelCompetitor(
                RelSub(RelPrimary(RelSegment(g, customer_id, row),
                                  customer_id, row),
                       customer_id, row),
                customer_id, row["Competitor 1"]),
            customer_id, row["Competitor 2"])

RECURSIVE BuildRelationshipsFrom(_, _, _)
BuildRelationshipsFrom(self, d, i) ==
    IF i > Len(d) THEN Ok(self)
    ELSE LET row == d[i]
             g == RelRow(self.graph, row)
             products_str == row["Products (Rollup)"]
         IN  IF NotNa(products_str) /\ Truthy(products_str)
             THEN IF ~IsStr(products_str)
                  THEN Raise([self EXCEPT !.graph = g], "AttributeError")
                  ELSE BuildRelationshipsFrom(
                           [self EXCEPT !.graph =
                               RelProductsFrom(g, Fmt(row["Account Name"]),
                                   ProductTokens(products_str.str), 1)],
                           d, i + 1)
             ELSE BuildRelationshipsFrom([self EXCEPT !.graph = g], d, i + 1)

BuildRelationships(self, d) == BuildRelationshipsFrom(self, d, 1)

-----------------------------------------------------------------------------
(* build_from_dataframe: the five extraction passes and the relationship   *)
(* pass, in order; an exception of a pass ends the build where it occurs   *)
(* (_log_statistics only reads).                                           *)

BuildFromDataframe(self, d) ==
    LET c == ExtractCustomers(self, d)
    IN  IF c.raised # "none" THEN c
        ELSE LET s == Ok(ExtractSegments(c.self, d))
        IN  IF s.raised # "none" THEN s
        ELSE LET r == Ok(ExtractChurnReasons(s.self, d))
        IN  IF r.raised # "none" THEN r
        ELSE LET k == Ok(ExtractCompetitors(r.self, d))
        IN  IF k.raised # "none" THEN k
        ELSE LET p == ExtractProducts(k.self, d)
        IN  IF p.raised # "none" THEN p
        ELSE BuildRelationships(p.self, d)

-----------------------------------------------------------------------------
(* the query methods *)

\* get_entity_by_type that answers an unknown type with every identifier
GetEntityByTypeAll(self, entity_type) ==
    IF entity_type \in DOMAIN self.entity_types
    THEN self.entity_types[entity_type]
    ELSE UNION {self.entity_types[t] : t \in DOMAIN self.entity_types}

\* get_entity_by_type: list(self.entity_types.get(entity_type, set())); the
\* order of a list made from a set is unspecified, so the identifiers are
\* given as a set
GetEntityByType(self, entity_type) ==
    IF entity_type \in DOMAIN self.entity_types
    THEN self.entity_types[entity_type]
    ELSE {}

\* get_neighbors: the (neighbor, edge_data) pairs of the out-edges of
\* node_id, in adjacency order, kept when no filter is given
\* (relationship_type is None) or the edge carries that relationship
GetNeighbors(g, node_id, relationship_type) ==
    IF ~HasNode(g, node_id) THEN <<>>
    ELSE LET Kept(neighbor) ==
                 \/ relationship_type = None
                 \/ Get(g.eattr[<<node_id, neighbor>>], "relationship")
                        = relationship_type
             kept == SelectSeq(g.succ[node_id], Kept)
         IN  [k \in 1..Len(kept) |->
                 <<kept[k], g.eattr[<<node_id, kept[k]>>]>>]

\* CustomersInto over the successors of the node instead
CustomersIntoSuccessors(g, entity_node) ==
    IF ~HasNode(g, entity_node) THEN <<>>
    ELSE LET IsCustomer(node) == Get(g.attr[node], "type") = Str("Customer")
         IN  SelectSeq(g.succ[entity_node], IsCustomer)

\* the shared body of the query_customers_by_* methods: the predecessors of
\* the entity's node whose type attribute is 'Customer'
CustomersInto(g, entity_node) ==
    IF ~HasNode(g, entity_node) THEN <<>>
    ELSE LET IsCustomer(node) == Get(g.attr[node], "type") = Str("Customer")
         IN  SelectSeq(g.pred[entity_node], IsCustomer)

QueryReasonNode(reason) == ReasonNode(reason)

QueryCustomersByReason(g, reason) == CustomersInto(g, QueryReasonNode(reason))

QueryCustomersByCompetitor(g, competitor) ==
    CustomersInto(g, CompetitorNode(competitor))

QueryCustomersBySegment(g, segment) == CustomersInto(g, SegmentNode(segment))

-----------------------------------------------------------------------------
(* get_churn_patterns *)

TopN == 5

\* the names of the neighbors of one customer over edges of one
\* relationship whose id starts with the prefix: the id with every
\* occurrence of the prefix removed
NamesOver(g, customer, relationship, prefix) ==
    LET nbrs == GetNeighbors(g, customer, Str(relationship))
        Prefixed(pair) == StartsWith(pair[1], prefix)
        kept == SelectSeq(nbrs, Prefixed)
    IN  [k \in 1..Len(kept) |-> Replace(kept[k][1], prefix, "")]

\* the concatenation of NamesOver for the customers, in order
RECURSIVE CollectNames(_, _, _, _)
CollectNames(g, customers, relationship, prefix) ==
    IF Len(customers) = 0 THEN <<>>
    ELSE NamesOver(g, Head(customers), relationship, prefix)
         \o CollectNames(g, Tail(customers), relationship, prefix)

\* collections.Counter(items): the keys in order of first occurrence, each
\* with its number of occurrences
RECURSIVE DistinctKeys(_, _)
DistinctKeys(items, seen) ==
    IF Len(items) = 0 THEN seen
    ELSE DistinctKeys(Tail(items),
                      IF \E k \in 1..Len(seen) : seen[k] = Head(items)
                      THEN seen ELSE Append(seen, Head(items)))

Occurrences(items, key) == Cardinality({i \in 1..Len(items) : items[i] = key})

Counter(items) ==
    LET keys == DistinctKeys(items, <<>>)
    IN  [k \in 1..Len(keys) |-> <<keys[k], Occurrences(items, keys[k])>>]

\* sorted(pairs, key=count, reverse=True): stable, so equal counts keep
\* their order
RECURSIVE InsertByCount(_, _)
InsertByCount(sorted, pair) ==
    IF Len(sorted) = 0 THEN <<pair>>
    ELSE IF Head(sorted)[2] >= pair[2]
         THEN <<Head(sorted)>> \o InsertByCount(Tail(sorted), pair)
         ELSE <<pair>> \o sorted

RECURSIVE SortByCount(_, _)
SortByCount(pairs, sorted) ==
    IF Len(pairs) = 0 THEN sorted
    ELSE SortByCount(Tail(pairs), InsertByCount(sorted, Head(pairs)))

\* most_common without the sort: the first n keys in order of occurrence
MostCommonUnsorted(items, n) ==
    LET counted == Counter(items)
    IN  SubSeq(counted, 1, IF Len(counted) < n THEN Len(counted) ELSE n)

\* dict(Counter(items).most_common(n)): the items of the dict, in order
MostCommon(items, n) ==
    LET sorted == SortByCount(Counter(items), <<>>)
    IN  SubSeq(sorted, 1, IF Len(sorted) < n THEN Len(sorted) ELSE n)

\* sum() of floats held in hundredths
RECURSIVE Sum(_)
Sum(values) == IF Len(values) = 0 THEN 0 ELSE Head(values) + Sum(Tail(values))

\* total / count as an exact quotient of hundredths, in lowest terms
Quotient(total, count) ==
    LET g == Gcd(IF total < 0 THEN -total ELSE total, count)
    IN  [num |-> total \div g, den |-> count \div g]

\* customer_data.get(key, 0) of a float attribute, in hundredths
FloatAttr(g, customer, key) ==
    IF key \in DOMAIN g.attr[customer] THEN g.attr[customer][key].flt ELSE 0

EmptyDict == <<>>

\* get_churn_patterns with a zeroed record in place of the early return
GetChurnPatternsZeroed(g, segment) ==
    LET customers == QueryCustomersBySegment(g, segment)
        reasons == CollectNames(g, customers, "CHURNED_DUE_TO", "REASON:")
        competitors == CollectNames(g, customers, "SWITCHED_TO", "COMPETITOR:")
        arr_values == [k \in 1..Len(customers) |->
                          FloatAttr(g, customers[k], "arr_lost")]
        tenures == [k \in 1..Len(customers) |->
                       FloatAttr(g, customers[k], "tenure_years")]
        count == IF Len(customers) = 0 THEN 1 ELSE Len(customers)
    IN  [segment |-> segment,
         customer_count |-> Len(customers),
         top_reasons |-> MostCommon(reasons, TopN),
         top_competitors |-> MostCommon(competitors, TopN),
         avg_tenure |-> Quotient(Sum(tenures), count),
         avg_arr_lost |-> Quotient(Sum(arr_values), count),
         total_arr_lost |-> Sum(arr_values)]

\* get_churn_patterns reading the lost ARR under a key the customer nodes
\* do not carry, so that every value is the default 0
GetChurnPatternsArrKey(g, segment) ==
    LET customers == QueryCustomersBySegment(g, segment)
        reasons == CollectNames(g, customers, "CHURNED_DUE_TO", "REASON:")
        competitors == CollectNames(g, customers, "SWITCHED_TO", "COMPETITOR:")
        tenures == [k \in 1..Len(customers) |->
                       FloatAttr(g, customers[k], "tenure_years")]
        arr_values == [k \in 1..Len(customers) |->
                          FloatAttr(g, customers[k], "arr")]
    IN  IF Len(customers) = 0 THEN EmptyDict
        ELSE [segment |-> segment,
              customer_count |-> Len(customers),
              top_reasons |-> MostCommon(reasons, TopN),
              top_competitors |-> MostCommon(competitors, TopN),
              avg_tenure |-> Quotient(Sum(tenures), Len(tenures)),
              avg_arr_lost |-> Quotient(Sum(arr_values), Len(arr_values)),
              total_arr_lost |-> Sum(arr_values)]

\* get_churn_patterns: the customers of the segment, the lists read off
\* them (each computed once), and the record made of them
GetChurnPatterns(g, segment) ==
    CHOOSE patterns \in UNION {
        {IF Len(customers) = 0 THEN EmptyDict
         ELSE [segment |-> segment,
               customer_count |-> Len(customers),
               top_reasons |-> MostCommon(reasons, TopN),
               top_competitors |-> MostCommon(competitors, TopN),
               avg_tenure |-> Quotient(Sum(tenures), Len(tenures)),
               avg_arr_lost |-> Quotient(Sum(arr_values), Len(arr_values)),
               total_arr_lost |-> Sum(arr_values)] :
            reasons \in
                {CollectNames(g, customers, "CHURNED_DUE_TO", "REASON:")},
            competitors \in
                {CollectNames(g, customers, "SWITCHED_TO", "COMPETITOR:")},
            tenures \in
                {[k \in 1..Len(customers) |->
                     FloatAttr(g, customers[k], "tenure_years")]},
            arr_values \in
                {[k \in 1..Len(customers) |->
                     FloatAttr(g, customers[k], "arr_lost")]}} :
        customers \in {QueryCustomersBySegment(g, segment)}} : TRUE

-----------------------------------------------------------------------------
(* save_graph and load_graph. pickle.dump writes the DiGraph object alone  *)
(* (not the instance): its node dict and its two adjacency dicts, each as  *)
(* the stream of its items in order; pickle.load rebuilds the dicts from   *)
(* the stream.                                                             *)

NoFile == <<>>

Paths == {"cache/test_kg.pkl"}

\* the (key, value) items of the successor dict of node n
SuccItems(g, n) ==
    [k \in 1..Len(g.succ[n]) |-> <<g.succ[n][k], g.eattr[<<n, g.succ[n][k]>>]>>]

\* the (key, value) items of the predecessor dict of node n
PredItems(g, n) ==
    [k \in 1..Len(g.pred[n]) |-> <<g.pred[n][k], g.eattr[<<g.pred[n][k], n>>]>>]

\* a dump that writes the node ids without their attribute dicts
PickleWithoutNodeAttrs(g) ==
    <<"networkx.DiGraph",
      [i \in 1..Len(g.node) |-> <<g.node[i], <<>> >>],
      [i \in 1..Len(g.node) |->
          <<g.node[i], SuccItems(g, g.node[i])>>],
      [i \in 1..Len(g.node) |->
          <<g.node[i], PredItems(g, g.node[i])>>]>>

Pickle(g) ==
    <<"networkx.DiGraph",
      [i \in 1..Len(g.node) |-> <<g.node[i], g.attr[g.node[i]]>>],
      [i \in 1..Len(g.node) |->
          <<g.node[i], SuccItems(g, g.node[i])>>],
      [i \in 1..Len(g.node) |->
          <<g.node[i], PredItems(g, g.node[i])>>]>>

\* the keys of a stream of items, in order, and the dict of the stream
Keys(items) == [i \in 1..Len(items) |-> items[i][1]]

DictOf(items) ==
    LET ks == {items[i][1] : i \in 1..Len(items)}
        At(key) == CHOOSE i \in 1..Len(items) :
                       /\ items[i][1] = key
                       /\ \A j \in (i + 1)..Len(items) : items[j][1] # key
    IN  IF ks = {} THEN <<>> ELSE [key \in ks |-> items[At(key)][2]]

Unpickle(blob) ==
    LET nodes == blob[2]
        succ == blob[3]
        pred == blob[4]
        edges == UNION {{<<succ[i][1], succ[i][2][k][1]>> :
                            k \in 1..Len(succ[i][2])} : i \in 1..Len(succ)}
    IN  [node |-> Keys(nodes),
         attr |-> DictOf(nodes),
         succ |-> DictOf([i \in 1..Len(succ) |->
                             <<succ[i][1], Keys(succ[i][2])>>]),
         pred |-> DictOf([i \in 1..Len(pred) |->
                             <<pred[i][1], Keys(pred[i][2])>>]),
         eattr |-> IF edges = {} THEN <<>>
                   ELSE [e \in edges |-> DictOf(DictOf(succ)[e[1]])[e[2]]]]

\* save_graph: the file holds the pickled graph
SaveGraph(self, fs, filepath) == [fs EXCEPT ![filepath] = Pickle(self.graph)]

\* the identifier load_graph puts in the index for a node: the node id of
\* a Customer, the name attribute (the node id without one) of the others
LoadedIdent(g, node) ==
    IF g.attr[node]["type"] = Str("Customer") THEN node
    ELSE IF "name" \in DOMAIN g.attr[node] THEN Fmt(g.attr[node]["name"])
    ELSE node

\* the nodes whose type attribute is t
NodesOfType(g, t) ==
    {node \in DOMAIN g.attr : Get(g.attr[node], "type") = Str(t)}

\* the entity-type sets load_graph starts the rebuild from
LoadBase(self) == self.entity_types

\* load_graph: self.graph = pickle.load(f), then the loop over the nodes
\* that adds each node of a known type to self.entity_types
LoadGraph(self, blob) ==
    LET g == Unpickle(blob)
    IN  [graph |-> g,
         entity_types |->
             [t \in EntityTypeNames |->
                 LoadBase(self)[t] \cup {LoadedIdent(g, node) : node \in NodesOfType(g, t)}]]

-----------------------------------------------------------------------------
(* The agents (src/src/agents): LangGraph workflows. A workflow's state is *)
(* a dict of channels; a node receives the channel values, and the dict it *)
(* returns is written back key by key: a plain channel takes the returned  *)
(* value, the errors channel, declared Annotated[List[str], operator.add], *)
(* takes its old value plus the returned list. The language model, the     *)
(* retriever and the web search are outside the program: each call either  *)
(* raises or returns one of a few replies.                                 *)

\* a Python list held where None can also be held
List(items) == [list |-> items]

\* truth value of an optional object or of an optional list
IsSet(v) == v # None /\ v # List(<<>>)

\* truth value of an optional str
IsTrue(v) == v # None /\ v # Str("")

\* d.get(key, default) of a dict held as a function
GetOr(d, key, default) == IF key \in DOMAIN d THEN d[key] ELSE default

\* sub in s
Contains(s, sub) ==
    \E text \in {s} :
        \E i \in 1..(Len(text) - Len(sub) + 1) :
            SubSeq(text, i, i + Len(sub) - 1) = sub

\* items[:n]
Take(items, n) == SubSeq(items, 1, IF Len(items) < n THEN Len(items) ELSE n)

\* the channel values after a node: the returned dict written back, with
\* the errors channel reduced by operator.add
ApplyUpdate(state, returned) ==
    [returned EXCEPT !.errors = state.errors \o returned.errors]

\* the tools an agent is constructed with
Retriever == [obj |-> "ChurnRAGRetriever"]
Tavily == [obj |-> "TavilySearchResults"]

\* a reply of the language model, the retriever or the web search: an
\* exception, or a returned value
Raised(exc) == [raised |-> TRUE, exc |-> exc]
Returned(value) == [raised |-> FALSE, value |-> value]

\* json.loads of a reply that is no JSON text ('not json'), and the text of
\* the JSONDecodeError it raises
Unparseable == [unparseable |-> TRUE]
JSONDecodeError == "Expecting value: line 1 column 1 (char 0)"

\* the documents a retriever call returns: the first n of the indexed ones
MaxDocs == 2

\* a document as convert_to_documents of the data loader makes it
\* (src/src/utils/data_loader.py lines 151-164), with the keys of its
\* metadata the agents read; arr_lost is a float, Flt(n) of n whole
\* hundredths
Document(account_name, segment, churn_reason, arr_lost) ==
    [metadata |-> [account_name |-> account_name, segment |-> segment,
                   churn_reason |-> churn_reason, arr_lost |-> arr_lost]]

IndexedDocuments ==
    <<Document("CustomerA", "Commercial", "Price", Flt(1234567)),
      Document("CustomerB", "Commercial", "Product Fit", Flt(500000)),
      Document("CustomerC", "Enterprise", "Price", Flt(5000000)),
      Document("CustomerD", "SMB", "Support", Flt(0))>>

RetrieverReplies ==
    {Raised("connection refused")}
    \cup {Returned(Take(IndexedDocuments, n)) : n \in 0..MaxDocs}

-----------------------------------------------------------------------------

(* CustomerChurnAgent (src/src/agents/churn_agent.py) *)

\* __init__: the tools are stored; Tavily is set up only when it is asked
\* for and the key is in the environment, and stays None when the
\* constructor of TavilySearchResults raises (tavily_raises)
CreateAgent(rag_retriever, knowledge_graph, use_tavily, tavily_api_key, tavily_raises) ==
    [rag_retriever |-> rag_retriever,
     knowledge_graph |-> knowledge_graph,
     tavily_search |-> IF use_tavily /\ tavily_api_key /\ ~tavily_raises
                       THEN Tavily ELSE None]

\* run: the initial state handed to the compiled graph
InitialAgentState(query, customer_id) ==
    [query |-> query, customer_id |-> customer_id, query_type |-> None,
     documents |-> <<>>, kg_results |-> EmptyDict, web_results |-> None,
     analysis |-> "", recommendations |-> <<>>, confidence_score |-> 0,
     sources |-> <<>>, retrieval_method |-> None, errors |-> <<>>]

\* the replies to the classification prompt: an exception, a text that is
\* no JSON, or a JSON object with or without a query_type, its customer_id
\* null, empty or a name
ClassifyReplies ==
    {Raised("model unavailable"), Returned(Unparseable),
     Returned("customer_id" :> None),
     Returned(("query_type" :> Str("risk_assessment"))
              @@ ("customer_id" :> Str(""))),
     Returned(("query_type" :> Str("risk_assessment"))
              @@ ("customer_id" :> Str("CustomerA")))}
    \cup {Returned(("query_type" :> Str(t)) @@ ("customer_id" :> None)) :
             t \in {"risk_assessment", "pattern_analysis",
                    "retention_strategy", "competitive_intel",
                    "general_inquiry"}}

\* _understand_query without the try/except around the model call
UnderstandQueryUnguarded(state, reply) ==
    IF reply.raised THEN Raise(state, reply.exc)
    ELSE IF reply.value = Unparseable THEN Raise(state, "JSONDecodeError")
    ELSE Ok([state EXCEPT
                !.query_type =
                    GetOr(reply.value, "query_type", Str("pattern_analysis")),
                !.customer_id =
                    IF IsTrue(GetOr(reply.value, "customer_id", None))
                    THEN reply.value["customer_id"] ELSE @])

\* _understand_query
UnderstandQuery(state, reply) ==
    IF reply.raised \/ reply.value = Unparseable
    THEN Ok([state EXCEPT
                !.query_type = Str("pattern_analysis"),
                !.errors =
                    <<"Query classification error: "
                        \o (IF reply.raised THEN reply.exc
                            ELSE JSONDecodeError)>>])
    ELSE Ok([state EXCEPT
                !.query_type =
                    GetOr(reply.value, "query_type", Str("pattern_analysis")),
                !.customer_id =
                    IF IsTrue(GetOr(reply.value, "customer_id", None))
                    THEN reply.value["customer_id"] ELSE @])

\* the method recorded per query type
RetrievalMethod(query_type) ==
    IF query_type = Str("risk_assessment") THEN "metadata_filtered"
    ELSE IF query_type = Str("pattern_analysis") THEN "multi_query"
    ELSE IF query_type = Str("retention_strategy") THEN "contextual_compression"
    ELSE IF query_type = Str("competitive_intel") THEN "competitor_filtered"
    ELSE "naive"

\* _retrieve_documents: the documents are the retriever's reply as it is,
\* whatever number was asked for
RetrieveDocuments(self, state, reply) ==
    IF ~IsSet(self.rag_retriever)
    THEN Ok([state EXCEPT !.documents = <<>>,
                          !.retrieval_method = Str("none")])
    ELSE IF reply.raised
    THEN Ok([state EXCEPT !.documents = <<>>,
                          !.retrieval_method = Str("failed"),
                          !.errors = <<"Retrieval error: " \o reply.exc>>])
    ELSE Ok([state EXCEPT
                !.documents = reply.value,
                !.retrieval_method =
                    Str(RetrievalMethod(state.query_type))])

\* the segments the agents ask the knowledge graph about
AgentSegments == <<"Commercial", "SMB", "Mid-Market", "Strategic", "Enterprise">>

\* get_churn_patterns of each listed segment, kept when it reports
\* customers (each segment's patterns computed once)
SegmentPatterns(kg) ==
    CHOOSE kept \in
        {[s \in {x \in DOMAIN patterns :
                    /\ patterns[x] # EmptyDict
                    /\ patterns[x]["customer_count"] > 0} |-> patterns[s]] :
            patterns \in
                {[s \in {AgentSegments[k] : k \in 1..Len(AgentSegments)} |->
                     GetChurnPatterns(kg.graph, s)]}} : TRUE

\* entities[:n] of a list made from a set, whose order is the iteration
\* order of the set: what it can be, as sets: all of the entities when
\* there are at most n, otherwise any n of them
FirstOf(entities, n) ==
    IF Cardinality(entities) <= n THEN {entities}
    ELSE {some \in SUBSET entities : Cardinality(some) = n}

\* the result groups _query_knowledge_graph collects for a query type,
\* given the competitors and the reasons its slices keep
KgResultsWith(kg, query_type, competitors, churn_reasons) ==
    LET summary ==
            [total_customers |-> Cardinality(GetEntityByType(kg, "Customer")),
             segments |-> Cardinality(GetEntityByType(kg, "Segment")),
             churn_reasons |-> Cardinality(GetEntityByType(kg, "ChurnReason")),
             competitors |-> Cardinality(GetEntityByType(kg, "Competitor"))]
        groups ==
            IF query_type = Str("pattern_analysis")
            THEN SegmentPatterns(kg)
            ELSE IF query_type = Str("competitive_intel")
            THEN ("competitors" :> competitors)
                 @@ ("competitor_counts" :>
                        [c \in {x \in competitors :
                                   Len(QueryCustomersByCompetitor(kg.graph, x)) > 0}
                            |-> Len(QueryCustomersByCompetitor(kg.graph, c))])
            ELSE IF query_type = Str("retention_strategy")
            THEN ("churn_reasons" :> churn_reasons)
            ELSE EmptyDict
    IN  ("summary" :> summary) @@ groups

\* the results _query_knowledge_graph can collect for a query type
KgResultsFor(kg, query_type) ==
    {KgResultsWith(kg, query_type, competitors, churn_reasons) :
        competitors \in FirstOf(GetEntityByType(kg, "Competitor"), 10),
        churn_reasons \in FirstOf(GetEntityByType(kg, "ChurnReason"), 15)}

\* _query_knowledge_graph: the outcomes it can have; graph_call is the
\* exception a call on the knowledge graph raises, or "none"
QueryKnowledgeGraph(self, state, graph_call) ==
    IF ~IsSet(self.knowledge_graph)
    THEN {Ok([state EXCEPT !.kg_results = EmptyDict])}
    ELSE IF graph_call # "none"
    THEN {Ok([state EXCEPT !.kg_results = EmptyDict,
                           !.errors = <<"KG query error: " \o graph_call>>])}
    ELSE {Ok([state EXCEPT !.kg_results = kg_results]) :
             kg_results \in KgResultsFor(self.knowledge_graph,
                                          state.query_type)}

\* _should_search_web that looks for the words in the query as typed
ShouldSearchWebAsTyped(self, state) ==
    LET query == state.query
        should_search ==
            \/ state.query_type = Str("competitive_intel")
            \/ Len(state.documents) < 2
            \/ Contains(query, "industry")
            \/ Contains(query, "benchmark")
            \/ Contains(query, "trend")
    IN  IF should_search /\ IsSet(self.tavily_search)
        THEN "search_web" ELSE "analyze"

\* _should_search_web
ShouldSearchWeb(self, state) ==
    LET query == Lower(state.query)
        should_search ==
            \/ state.query_type = Str("competitive_intel")
            \/ Len(state.documents) < 2
            \/ Contains(query, "industry")
            \/ Contains(query, "benchmark")
            \/ Contains(query, "trend")
    IN  IF should_search /\ IsSet(self.tavily_search)
        THEN "search_web" ELSE "analyze"

\* the replies of the web search
WebResult(n) == [url |-> "https://example.com/" \o n, title |-> "Result " \o n]

WebReplies ==
    {Raised("search failed"), Returned(<<>>),
     Returned(<<WebResult("1"), WebResult("2"), WebResult("3"), WebResult("4")>>)}

\* _search_web
SearchWeb(self, state, reply) ==
    IF ~IsSet(self.tavily_search)
    THEN Ok([state EXCEPT !.web_results = List(<<>>)])
    ELSE IF reply.raised
    THEN Ok([state EXCEPT !.web_results = List(<<>>),
                          !.errors = <<"Web search error: " \o reply.exc>>])
    ELSE Ok([state EXCEPT !.web_results = List(Take(reply.value, 3))])

\* the replies to the analysis prompt
AnalysisReplies == {Raised("model unavailable"), Returned("The analysis")}

\* _analyze_churn_risk
AnalyzeChurnRisk(state, reply) ==
    IF reply.raised
    THEN Ok([state EXCEPT !.analysis = "Analysis error: " \o reply.exc,
                          !.errors = <<"Analysis error: " \o reply.exc>>])
    ELSE Ok([state EXCEPT !.analysis = reply.value])

\* the replies to the recommendations prompt: an exception, a text that is
\* no JSON, a JSON array, or a JSON string
RecommendationReplies ==
    {Raised("model unavailable"), Returned(Unparseable),
     Returned(List(<<"Review pricing", "Improve onboarding">>)),
     Returned(Str("Review pricing"))}

\* _generate_recommendations
GenerateRecommendations(state, reply) ==
    IF reply.raised \/ reply.value = Unparseable
    THEN Ok([state EXCEPT
                !.recommendations =
                    <<"Unable to generate recommendations due to error">>,
                !.errors =
                    <<"Recommendation error: "
                        \o (IF reply.raised THEN reply.exc
                            ELSE JSONDecodeError)>>])
    ELSE IF DOMAIN reply.value = {"list"}
    THEN Ok([state EXCEPT !.recommendations = reply.value.list])
    ELSE Ok([state EXCEPT !.recommendations = <<Fmt(reply.value)>>])

\* the confidence, in hundredths: min(1.0, 0.15 per document + 0.1 per
\* result group - 0.2 per error), and at least 0.0
Confidence(doc_count, kg_data, error_count) ==
    LET raw == doc_count * 15 + kg_data * 10 - error_count * 20
        capped == IF raw > 100 THEN 100 ELSE raw
    IN  IF capped < 0 THEN 0 ELSE capped

\* _synthesize_response
SynthesizeResponse(state) ==
    LET documents == Take(state.documents, 5)
        web_results ==
            IF IsSet(state.web_results) THEN state.web_results.list ELSE <<>>
        doc_sources ==
            [k \in 1..Len(documents) |->
                [type |-> "customer_data",
                 customer |-> Get(documents[k].metadata, "account_name"),
                 segment |-> Get(documents[k].metadata, "segment"),
                 relevance |-> "high"]]
        kg_sources ==
            IF DOMAIN state.kg_results # {}
            THEN <<[type |-> "knowledge_graph",
                    entities |-> Cardinality(DOMAIN state.kg_results),
                    relevance |-> "high"]>>
            ELSE <<>>
        web_sources ==
            [k \in 1..Len(web_results) |->
                [type |-> "web_research", url |-> web_results[k].url,
                 title |-> web_results[k].title, relevance |-> "medium"]]
    IN  Ok([state EXCEPT
               !.confidence_score =
                   Confidence(Len(state.documents),
                              Cardinality(DOMAIN state.kg_results),
                              Len(state.errors)),
               !.sources = doc_sources \o kg_sources \o web_sources])

\* run: the response made from the final state
AgentResponse(query, final_state) ==
    [query |-> query,
     query_type |-> final_state.query_type,
     analysis |-> final_state.analysis,
     recommendations |-> final_state.recommendations,
     confidence_score |-> final_state.confidence_score,
     sources |-> final_state.sources,
     retrieval_method |-> final_state.retrieval_method,
     documents_retrieved |-> Len(final_state.documents),
     kg_insights |-> Cardinality(DOMAIN final_state.kg_results),
     errors |-> final_state.errors]

\* run: the response when the graph raised
AgentFailure(query, exc) ==
    [query |-> query, error |-> exc,
     analysis |-> "Agent execution failed: " \o exc,
     recommendations |-> <<>>, confidence_score |-> 0, sources |-> <<>>]

-----------------------------------------------------------------------------

(* ResearchTeam (src/src/agents/research_team.py) *)

\* __init__: the tools are stored as for the single agent
CreateResearchTeam(rag_retriever, knowledge_graph, use_tavily, tavily_api_key, tavily_raises) ==
    [rag_retriever |-> rag_retriever,
     knowledge_graph |-> knowledge_graph,
     tavily_search |-> IF use_tavily /\ tavily_api_key /\ ~tavily_raises
                       THEN Tavily ELSE None]

\* research: the initial state handed to the team's graph
InitialResearchState(query) ==
    [query |-> query, background_context |-> "", rag_documents |-> <<>>,
     web_research |-> <<>>, key_insights |-> <<>>, sources |-> <<>>,
     errors |-> <<>>]

\* str(n) of a natural number
RECURSIVE NatStr(_)
NatStr(n) ==
    IF n < 10 THEN CHOOSE c \in Digits : DigitVal(c) = n
    ELSE NatStr(n \div 10) \o NatStr(n % 10)

\* the f-string of one segment's insight (lines 147-150): top_reasons is
\* the dict get_churn_patterns made, with the reasons' texts as keys; when
\* it is not empty it is subscripted with 0, which is none of its keys
SegmentInsight(segment, patterns) ==
    IF Len(patterns["top_reasons"]) # 0
    THEN [raised |-> "KeyError", exc |-> "0"]
    ELSE [raised |-> "none",
          value |-> segment \o ": " \o NatStr(patterns["customer_count"])
                    \o " customers, top reason: N/A"]

\* the loop over the segments (lines 141-150): the insights of the
\* segments that report customers, or the first exception
RECURSIVE InsightsFrom(_, _, _)
InsightsFrom(kg, k, insights) ==
    IF k > Len(AgentSegments) THEN [raised |-> "none", value |-> insights]
    ELSE \* patterns is bound to the value of the call
         CHOOSE r \in
             {IF patterns # EmptyDict /\ patterns["customer_count"] > 0
              THEN IF SegmentInsight(AgentSegments[k], patterns).raised # "none"
                   THEN SegmentInsight(AgentSegments[k], patterns)
                   ELSE InsightsFrom(kg, k + 1,
                            Append(insights,
                                   SegmentInsight(AgentSegments[k], patterns).value))
              ELSE InsightsFrom(kg, k + 1, insights) :
                 patterns \in {GetChurnPatterns(kg.graph, AgentSegments[k])}} : TRUE

\* _gather_internal_knowledge
GatherInternalKnowledge(self, state, reply) ==
    IF ~IsSet(self.rag_retriever)
    THEN Ok([state EXCEPT !.rag_documents = <<>>])
    ELSE IF reply.raised
    THEN Ok([state EXCEPT !.rag_documents = <<>>,
                          !.errors = <<"RAG retrieval error: " \o reply.exc>>])
    ELSE IF ~IsSet(self.knowledge_graph)
    THEN Ok([state EXCEPT !.rag_documents = reply.value])
    ELSE LET insights == InsightsFrom(self.knowledge_graph, 1, <<>>)
         IN  IF insights.raised # "none"
             THEN Ok([state EXCEPT
                         !.rag_documents = <<>>,
                         !.errors = <<"RAG retrieval error: " \o insights.exc>>])
             ELSE Ok([state EXCEPT !.rag_documents = reply.value,
                                   !.key_insights = insights.value])

\* results[:2] of one search, nothing of a search that raises
SearchResults(reply) == IF reply.raised THEN <<>> ELSE Take(reply.value, 2)

\* _search_external_sources; replies are what the three searches give, in
\* order: a search that raises is skipped, the others add results[:2]
SearchExternalSources(self, state, replies) ==
    IF ~IsSet(self.tavily_search)
    THEN Ok([state EXCEPT !.web_research = <<>>])
    ELSE Ok([state EXCEPT
                !.web_research = SearchResults(replies[1])
                                 \o SearchResults(replies[2])
                                 \o SearchResults(replies[3])])

\* the replies to the synthesis prompt
SynthesisReplies ==
    {Raised("model unavailable"), Returned("Churn background")}

\* _synthesize_background
SynthesizeBackground(state, reply) ==
    IF reply.raised
    THEN Ok([state EXCEPT
                !.background_context =
                    "Unable to synthesize background context.",
                !.errors = <<"Synthesis error: " \o reply.exc>>])
    ELSE Ok([state EXCEPT
                !.background_context = reply.value,
                !.sources =
                    [k \in 1..Len(Take(state.rag_documents, 5)) |->
                        [type |-> "internal_data",
                         customer |->
                             Get(state.rag_documents[k].metadata,
                                 "account_name"),
                         segment |->
                             Get(state.rag_documents[k].metadata,
                                 "segment")]]
                    \o [k \in 1..Len(state.web_research) |->
                           [type |-> "external_research",
                            title |-> state.web_research[k].title,
                            url |-> state.web_research[k].url]]])

\* research: the dict made of the final state of the team's graph
ResearchResults(query, final_state) ==
    [query |-> query,
     background_context |-> final_state.background_context,
     key_insights |-> final_state.key_insights,
     sources |-> final_state.sources,
     documents_retrieved |-> Len(final_state.rag_documents),
     web_results |-> Len(final_state.web_research),
     errors |-> final_state.errors]

-----------------------------------------------------------------------------

Min(a, b) == IF a < b THEN a ELSE b

(* The floats of Python are IEEE 754 doubles.  Where its rounding shows, a *)
(* double is held exactly, as [neg, m, e]: the number m * 2^e, negated     *)
(* when neg, where m is a natural number of at most 53 bits.  A natural    *)
(* number is the sequence of its digits in base 32768 = 2^15, the lowest   *)
(* first and the highest not 0 (<<>> is 0).  The doubles met are far from  *)
(* the ends of the exponent range.                                         *)

RECURSIVE BigTrim(_)
BigTrim(a) ==
    IF Len(a) > 0 /\ a[Len(a)] = 0 THEN BigTrim(SubSeq(a, 1, Len(a) - 1))
    ELSE a

\* the natural number n < 2^30
BigOf(n) == BigTrim(<<n % 32768, n \div 32768>>)

\* the natural number a <= 2^30
BigValue(a) ==
    IF Len(a) = 0 THEN 0 ELSE IF Len(a) = 1 THEN a[1]
    ELSE a[1] + 32768 * a[2]

BigDigit(a, i) == IF i <= Len(a) THEN a[i] ELSE 0

RECURSIVE BigAddFrom(_, _, _, _)
BigAddFrom(a, b, i, carry) ==
    IF i > Len(a) /\ i > Len(b)
    THEN (IF carry = 0 THEN <<>> ELSE <<carry>>)
    ELSE <<(BigDigit(a, i) + BigDigit(b, i) + carry) % 32768>>
         \o BigAddFrom(a, b, i + 1,
                       (BigDigit(a, i) + BigDigit(b, i) + carry) \div 32768)

\* a + b
BigAdd(a, b) == BigAddFrom(a, b, 1, 0)

RECURSIVE BigSubFrom(_, _, _, _)
BigSubFrom(a, b, i, borrow) ==
    IF i > Len(a) THEN <<>>
    ELSE IF a[i] - BigDigit(b, i) - borrow < 0
    THEN <<a[i] - BigDigit(b, i) - borrow + 32768>>
         \o BigSubFrom(a, b, i + 1, 1)
    ELSE <<a[i] - BigDigit(b, i) - borrow>> \o BigSubFrom(a, b, i + 1, 0)

\* a - b, for a >= b
BigSub(a, b) == BigTrim(BigSubFrom(a, b, 1, 0))

\* a < b
BigLess(a, b) ==
    IF Len(a) # Len(b) THEN Len(a) < Len(b)
    ELSE \E i \in 1..Len(a) :
             /\ a[i] < b[i]
             /\ \A j \in (i + 1)..Len(a) : a[j] = b[j]

RECURSIVE BigMulDigitFrom(_, _, _, _)
BigMulDigitFrom(a, n, i, carry) ==
    IF i > Len(a) THEN (IF carry = 0 THEN <<>> ELSE <<carry>>)
    ELSE <<(a[i] * n + carry) % 32768>>
         \o BigMulDigitFrom(a, n, i + 1, (a[i] * n + carry) \div 32768)

\* a * n, for a digit n
BigMulDigit(a, n) == BigTrim(BigMulDigitFrom(a, n, 1, 0))

RECURSIVE BigMulFrom(_, _, _)
BigMulFrom(a, b, j) ==
    IF j > Len(b) THEN <<>>
    ELSE BigAdd(BigMulDigit(a, b[j]), <<0>> \o BigMulFrom(a, b, j + 1))

\* a * b
BigMul(a, b) == BigTrim(BigMulFrom(a, b, 1))

\* the remainder of (a \div 32768^i) by the digit d
RECURSIVE BigRem(_, _, _)
BigRem(a, d, i) ==
    IF i >= Len(a) THEN 0
    ELSE (BigRem(a, d, i + 1) * 32768 + a[i + 1]) % d

\* a \div d, for a digit d
BigDivDigit(a, d) ==
    BigTrim([i \in 1..Len(a) |-> (BigRem(a, d, i) * 32768 + a[i]) \div d])

\* a * 2^k
BigShl(a, k) == BigMulDigit([i \in 1..(k \div 15) |-> 0] \o a, 2^(k % 15))

\* a \div 2^k
BigShr(a, k) == BigDivDigit(SubSeq(a, k \div 15 + 1, Len(a)), 2^(k % 15))

\* the number of bits of a
BigBitLen(a) ==
    IF Len(a) = 0 THEN 0
    ELSE 15 * (Len(a) - 1)
         + (CHOOSE k \in 1..15 : 2^(k - 1) <= a[Len(a)] /\ a[Len(a)] < 2^k)

\* bit i of a, bit 0 the lowest
BigBit(a, i) == (BigDigit(a, i \div 15 + 1) \div 2^(i % 15)) % 2

\* a has a bit set below bit i
BigBitsBelow(a, i) ==
    \E j \in 1..Len(a) :
        \/ j <= i \div 15 /\ a[j] # 0
        \/ j = i \div 15 + 1 /\ a[j] % 2^(i % 15) # 0

\* a \div 2^k rounded to the nearest, a tie to the even one
BigShrRound(a, k) ==
    IF k = 0 THEN a
    ELSE IF BigBit(a, k - 1) = 1 /\ (BigBitsBelow(a, k - 1) \/ BigBit(a, k) = 1)
    THEN BigAdd(BigShr(a, k), <<1>>)
    ELSE BigShr(a, k)

\* the double nearest to m * 2^e: m is rounded to 53 bits, a tie to the
\* even one
DblRound(neg, m, e) ==
    IF BigBitLen(m) <= 53 THEN [neg |-> neg, m |-> m, e |-> e]
    ELSE [neg |-> neg, m |-> BigShrRound(m, BigBitLen(m) - 53),
          e |-> e + BigBitLen(m) - 53]

\* float(n) of an int 0 <= n < 2^30
DblOfInt(n) == [neg |-> FALSE, m |-> BigOf(n), e |-> 0]

\* n / d of ints 0 <= n < 2^30 and 0 < d < 2^15, which is also the value
\* of a decimal literal of n / d: the quotient n * 2^75 \div d has more
\* than 53 bits, and a bit is put below it when the division leaves a
\* remainder
DblDiv(n, d) ==
    IF n = 0 THEN DblOfInt(0)
    ELSE DblRound(FALSE,
                  BigAdd(BigMulDigit(BigDivDigit(BigShl(BigOf(n), 75), d), 2),
                         IF BigRem(BigShl(BigOf(n), 75), d, 0) = 0 THEN <<>>
                         ELSE <<1>>),
                  -76)

\* x * y
DblMul(x, y) == DblRound(x.neg # y.neg, BigMul(x.m, y.m), x.e + y.e)

\* the sum of a * 2^e, negated when xneg, and b * 2^e, negated when yneg
DblAddAligned(xneg, a, yneg, b, e) ==
    IF xneg = yneg THEN DblRound(xneg, BigAdd(a, b), e)
    ELSE IF BigLess(a, b) THEN DblRound(yneg, BigSub(b, a), e)
    ELSE DblRound(xneg, BigSub(a, b), e)

\* x + y
DblAdd(x, y) ==
    IF Len(x.m) = 0 THEN y
    ELSE IF Len(y.m) = 0 THEN x
    ELSE DblAddAligned(x.neg, BigShl(x.m, x.e - Min(x.e, y.e)),
                       y.neg, BigShl(y.m, y.e - Min(x.e, y.e)),
                       Min(x.e, y.e))

\* x - y
DblSub(x, y) == DblAdd(x, [y EXCEPT !.neg = ~@])

\* fabs(x) < fabs(y)
DblAbsLess(x, y) ==
    IF Len(y.m) = 0 THEN FALSE
    ELSE IF Len(x.m) = 0 THEN TRUE
    ELSE BigLess(BigShl(x.m, x.e - Min(x.e, y.e)),
                 BigShl(y.m, y.e - Min(x.e, y.e)))

\* min(x, 1) of a double x >= 0
DblMinOne(x) == IF DblAbsLess(DblOfInt(1), x) THEN DblOfInt(1) ELSE x

\* round(x, 2) of a double x with fabs(x) < 2^23, in hundredths: the whole
\* number of hundredths nearest to fabs(x), a tie to the even one
DblRoundHundredths(x) ==
    IF x.e >= 0 THEN BigValue(BigShl(BigMulDigit(x.m, 100), x.e))
    ELSE BigValue(BigShrRound(BigMulDigit(x.m, 100), -x.e))

\* the doubles xs[i], ... added to acc one after the other
RECURSIVE DblSumFrom(_, _, _)
DblSumFrom(xs, i, acc) ==
    IF i > Len(xs) THEN acc ELSE DblSumFrom(xs, i + 1, DblAdd(acc, xs[i]))

\* the same with the rounding error of each addition added to c (Neumaier):
\* total is acc + xs[i]
RECURSIVE DblCompensatedFrom(_, _, _, _)
DblCompensatedStep(xs, i, acc, c, total) ==
    DblCompensatedFrom(
        xs, i + 1, total,
        DblAdd(c, IF DblAbsLess(acc, xs[i])
                  THEN DblAdd(DblSub(xs[i], total), acc)
                  ELSE DblAdd(DblSub(acc, total), xs[i])))

DblCompensatedFrom(xs, i, acc, c) ==
    IF i > Len(xs) THEN (IF Len(c.m) = 0 THEN acc ELSE DblAdd(acc, c))
    ELSE CHOOSE sum \in {DblCompensatedStep(xs, i, acc, c, total) :
                            total \in {DblAdd(acc, xs[i])}} : TRUE

-----------------------------------------------------------------------------

(* WritingTeam (src/src/agents/writing_team.py) *)

CreateWritingTeam(rag_retriever) == [rag_retriever |-> rag_retriever]

\* write: the initial state handed to the team's graph
InitialWritingState(query, background_context) ==
    [query |-> query, background_context |-> background_context,
     use_cases |-> <<>>, draft_response |-> "", edited_response |-> "",
     citations |-> <<>>, empathy_enhanced |-> "", style_notes |-> <<>>,
     errors |-> <<>>]

\* the replies of the language model to the prompts of the sub-agents: a
\* failure, a text that earns three style notes and one that earns two
WriterReplies ==
    {Raised("model unavailable"),
     Returned("Churn is driven by pricing; we recommend a 10% discount."),
     Returned("We recommend a call with every customer at risk of churn.")}

\* _find_use_cases
FindUseCases(self, state, reply) ==
    IF ~IsSet(self.rag_retriever)
    THEN Ok([state EXCEPT !.use_cases = <<>>])
    ELSE IF reply.raised
    THEN Ok([state EXCEPT
                !.use_cases = <<>>,
                !.errors = <<"Use case retrieval error: " \o reply.exc>>])
    ELSE Ok([state EXCEPT !.use_cases = reply.value])

\* the digits of n < 1000 in three places
ThreePlaces(n) ==
    NatStr(n \div 100) \o NatStr((n \div 10) % 10) \o NatStr(n % 10)

\* format(n, ',') of a natural number: its digits in groups of three
RECURSIVE Grouped(_)
Grouped(n) ==
    IF n < 1000 THEN NatStr(n)
    ELSE Grouped(n \div 1000) \o "," \o ThreePlaces(n % 1000)

\* format(x, ',.2f') of a float: the sign, also of a zero, and the
\* hundredths nearest to fabs(x)
TwoPlaces(neg, hundredths) ==
    (IF neg THEN "-" ELSE "")
    \o Grouped(hundredths \div 100) \o "."
    \o NatStr((hundredths \div 10) % 10) \o NatStr(hundredths % 10)

\* str(e) of the exception format(v, ',.2f') raises for a metadata value,
\* "none" when it raises none: None and a str have no format code f
FormatError(v) ==
    IF v = None
    THEN "unsupported format string passed to NoneType.__format__"
    ELSE IF IsStr(v) THEN "Unknown format code 'f' for object of type 'str'"
    ELSE "none"

\* f"${v:,.2f}" of a number; nan is a float.  The float of Flt(n), n whole
\* hundredths, is nearer to n hundredths than to any other number of
\* hundredths, and an int formats as the float of its value; a float that
\* is not a whole number of hundredths is held as its double [neg, m, e]
\* and rounded to the nearest hundredth, a tie to the even one
MoneyText(v) ==
    IF v = NaN THEN "$nan"
    ELSE IF DOMAIN v = {"flt"}
    THEN "$" \o TwoPlaces(v.flt < 0, IF v.flt < 0 THEN -v.flt ELSE v.flt)
    ELSE "$" \o TwoPlaces(v.neg, DblRoundHundredths(v))

\* doc.metadata.get('arr_lost', 0)
ArrLostOf(doc) == GetOr(doc.metadata, "arr_lost", Flt(0))

\* the first of the use cases [:5] whose arr_lost does not format, 0 when
\* there is none
FirstUnformatted(use_cases) ==
    IF \A i \in 1..Len(Take(use_cases, 5)) :
           FormatError(ArrLostOf(use_cases[i])) = "none"
    THEN 0
    ELSE CHOOSE i \in 1..Len(Take(use_cases, 5)) :
             /\ FormatError(ArrLostOf(use_cases[i])) # "none"
             /\ \A j \in 1..(i - 1) :
                    FormatError(ArrLostOf(use_cases[j])) = "none"

\* _draft_response: DocumentWriterAgent.draft formats the use cases
\* before its try block, so an arr_lost that does not format raises out of
\* the node; otherwise it returns the model's text or the text of the
\* model's error
DraftResponse(state, model) ==
    IF FirstUnformatted(state.use_cases) # 0
    THEN Raise(state,
               FormatError(
                   ArrLostOf(
                       state.use_cases[FirstUnformatted(state.use_cases)])))
    ELSE Ok([state EXCEPT
                !.draft_response =
                    IF model.raised THEN "Error creating draft: " \o model.exc
                    ELSE model.value])

\* _edit_response: CopyEditorAgent.edit returns the draft when the model
\* fails
EditResponse(state, model) ==
    Ok([state EXCEPT
           !.edited_response =
               IF model.raised THEN state.draft_response ELSE model.value])

\* NoteTakerAgent.add_citations with sources = []: one citation per use
\* case of the first five, and [] when making one of them raises
Citations(use_cases) ==
    IF FirstUnformatted(use_cases) # 0 THEN <<>>
    ELSE [i \in 1..Len(Take(use_cases, 5)) |->
             [citation_id |-> "UC" \o NatStr(i),
              type |-> "use_case",
              customer |->
                  GetOr(use_cases[i].metadata, "account_name", "Unknown"),
              segment |-> GetOr(use_cases[i].metadata, "segment", "N/A"),
              churn_reason |->
                  GetOr(use_cases[i].metadata, "churn_reason", "N/A"),
              arr_lost |-> MoneyText(ArrLostOf(use_cases[i])),
              relevance |-> "high"]]

\* _add_citations
AddCitations(state) ==
    Ok([state EXCEPT !.citations = Citations(state.use_cases)])

\* _enhance_empathy: EmpathyEditorAgent.enhance_empathy returns its input
\* when the model fails
EnhanceEmpathy(state, model) ==
    Ok([state EXCEPT
           !.empathy_enhanced =
               IF model.raised THEN state.edited_response ELSE model.value])

\* len(s.split())
WordCount(s) ==
    Cardinality({i \in 1..Len(s) :
                    /\ Char(s, i) \notin Whitespace
                    /\ i = 1 \/ Char(s, i - 1) \in Whitespace})

\* StyleGuideAgent.check_style; each note is the code's text after its
\* leading check mark, a character the strings of the model do not hold
StyleNotes(response) ==
    (IF Contains(Lower(response), "churn")
     THEN <<"Uses appropriate industry terminology">> ELSE <<>>)
    \o (IF \E lowered \in {Lower(response)} :
               \E word \in {"recommend", "suggest", "strategy"} :
                   Contains(lowered, word)
        THEN <<"Includes actionable recommendations">> ELSE <<>>)
    \o (IF Contains(response, "$") \/ Contains(response, "%")
        THEN <<"Contains data-driven insights">> ELSE <<>>)
    \o (IF WordCount(response) > 200
        THEN <<"Meets comprehensive response length requirements">>
        ELSE <<>>)

\* _check_style
CheckStyle(state) ==
    Ok([state EXCEPT !.style_notes = StyleNotes(state.empathy_enhanced)])

\* write: the dict made of the final state of the team's graph
WritingResults(query, final_state) ==
    [query |-> query,
     final_response |-> final_state.empathy_enhanced,
     draft_response |-> final_state.draft_response,
     citations |-> final_state.citations,
     style_notes |-> final_state.style_notes,
     use_cases_found |-> Len(final_state.use_cases),
     errors |-> final_state.errors]

\* write: the dict of its except branch, when a node of the team's graph
\* raised; error is str(e)
WritingError(query, error) ==
    [query |-> query, error |-> error, final_response |-> "",
     citations |-> <<>>, errors |-> <<error>>]

-----------------------------------------------------------------------------

(* MultiAgentChurnSystem (src/src/agents/multi_agent_system.py) *)

\* __init__: the two teams
CreateSystem(rag_retriever, knowledge_graph, use_tavily, tavily_api_key, tavily_raises) ==
    [research_team |->
         CreateResearchTeam(rag_retriever, knowledge_graph, use_tavily,
                            tavily_api_key, tavily_raises),
     writing_team |-> CreateWritingTeam(rag_retriever)]

\* analyze: the initial state handed to the coordination graph
InitialSystemState(query) ==
    [query |-> query, query_type |-> None, background_context |-> "",
     research_insights |-> <<>>, research_sources |-> <<>>,
     final_response |-> "", draft_response |-> "", citations |-> <<>>,
     style_notes |-> <<>>, confidence_score |-> 0,
     processing_stages |-> <<>>, errors |-> <<>>]

ValidTypes ==
    {"risk_assessment", "pattern_analysis", "retention_strategy",
     "competitive_intel", "general_inquiry"}

\* the replies to the coordinator's classification prompt
CategoryReplies ==
    {Raised("model unavailable"), Returned("competitive_intel"),
     Returned(" Risk_Assessment\n"), Returned("It is about patterns")}

\* _classify_query
ClassifyQuery(state, reply) ==
    IF reply.raised
    THEN Ok([state EXCEPT
                !.query_type = Str("pattern_analysis"),
                !.errors = <<"Classification error: " \o reply.exc>>])
    ELSE Ok([state EXCEPT
                !.query_type =
                    IF Lower(Strip(reply.value)) \in ValidTypes
                    THEN Str(Lower(Strip(reply.value)))
                    ELSE Str("pattern_analysis"),
                !.processing_stages = <<"classification_complete">>])

\* _research_phase; research_results is what research() returned
ResearchPhase(state, research_results) ==
    Ok([state EXCEPT
           !.background_context = research_results.background_context,
           !.research_insights = research_results.key_insights,
           !.research_sources = research_results.sources,
           !.processing_stages = Append(@, "research_complete")])

\* _writing_phase; writing_results is what write() returned
WritingPhase(state, writing_results) ==
    Ok([state EXCEPT
           !.final_response = GetOr(writing_results, "final_response", ""),
           !.draft_response = GetOr(writing_results, "draft_response", ""),
           !.citations = GetOr(writing_results, "citations", <<>>),
           !.style_notes = GetOr(writing_results, "style_notes", <<>>),
           !.processing_stages = Append(@, "writing_complete")])

\* the five factors of the confidence, in the order of the dict: a float
\* literal is the double nearest to its decimal value
ConfidenceFactors(state) ==
    <<IF state.background_context # "" THEN DblDiv(2, 10) ELSE DblOfInt(0),
      DblMul(DblDiv(15, 100),
             DblMinOne(DblDiv(Len(state.research_insights), 5))),
      IF Len(state.final_response) > 500 THEN DblDiv(3, 10)
      ELSE DblDiv(15, 100),
      DblMul(DblDiv(2, 10), DblMinOne(DblDiv(Len(state.citations), 5))),
      DblMul(DblDiv(15, 100), DblMinOne(DblDiv(Len(state.style_notes), 4)))>>

\* the confidence of _synthesize_final in hundredths: round(sum(...), 2).
\* sum() starts from 0 and adds the factors one after the other, each
\* addition rounded; where compensated (CPython from 3.12 on) it also
\* carries the rounding errors of the additions and adds them at the end
FinalConfidence(state, compensated) ==
    CHOOSE confidence \in
        {DblRoundHundredths(
             IF compensated
             THEN DblCompensatedFrom(factors, 1, DblOfInt(0), DblOfInt(0))
             ELSE DblSumFrom(factors, 1, DblOfInt(0))) :
            factors \in {ConfidenceFactors(state)}} : TRUE

\* _synthesize_final
SynthesizeFinal(state, compensated) ==
    Ok([state EXCEPT
           !.confidence_score = FinalConfidence(state, compensated),
           !.processing_stages = Append(@, "synthesis_complete")])

\* analyze: the response made of the final state
SystemResponse(query, final_state) ==
    [query |-> query,
     query_type |-> final_state.query_type,
     response |-> final_state.final_response,
     background_context |-> final_state.background_context,
     key_insights |-> final_state.research_insights,
     citations |-> final_state.citations,
     style_notes |-> final_state.style_notes,
     confidence_score |-> final_state.confidence_score,
     processing_stages |-> final_state.processing_stages,
     total_sources |-> Len(final_state.research_sources)
                       + Len(final_state.citations),
     research_sources |-> final_state.research_sources,
     errors |-> final_state.errors]

-----------------------------------------------------------------------------

(* the input tables: the sequences of at most MaxRows of the rows below     *)

MaxRows == 2

Row(name, segment, tenure, amount, products, primary, sub, comp1, comp2) ==
    ("Account Name" :> name) @@ ("Account Segment" :> segment)
    @@ ("Tenure (years)" :> tenure) @@ ("Amount" :> amount)
    @@ ("Close Date" :> Str("2024-03-31"))
    @@ ("First Win Date" :> Str("2021-06-01"))
    @@ ("Products (Rollup)" :> products)
    @@ ("Primary Outcome Reason" :> primary)
    @@ ("Outcome Sub Reason" :> sub)
    @@ ("Competitor 1" :> comp1) @@ ("Competitor 2" :> comp2)
    @@ ("Lost Opportunity Details" :> Str("Left at renewal"))

\* the spec's scenario rows, with a product list that repeats a token
RowA ==
    Row(Str("CustomerA"), Str("Commercial"), Flt(200), Str("$10,000.00"),
        Str("Core, Analytics;Core"), Str("Pricing"), Str("N/A"),
        Str("None mentioned"), NaN)

\* a sub-reason spelled like a primary reason; one competitor named in both
\* columns
RowB ==
    Row(Str("CustomerB"), Str("Commercial"), Flt(450), Str("$5,000"),
        Str("Analytics"), Str("Support"), Str("Pricing"),
        Str("Rival"), Str("Rival"))

\* CustomerA again, in another segment; a reason that occurs as a
\* sub-reason only; a numeric amount, no tenure, no products
\* (and dates of its own, no narrative)
RowC ==
    [Row(Str("CustomerA"), Str("Enterprise"), NaN, Flt(5000000),
         NaN, Str("Pricing"), Str("Budget"), Str("Other"), Str("Rival"))
        EXCEPT !["Close Date"] = Str("2024-09-30"),
               !["First Win Date"] = Str("2019-01-15"),
               !["Lost Opportunity Details"] = NaN]

\* missing cells; placeholder product tokens
RowD ==
    Row(Str("CustomerC"), NaN, Flt(100), NaN,
        Str("N/A; None, ,Core"), NaN, NaN, NaN, Str("N/A"))

\* CustomerB again, with placeholder texts in the columns whose filter does
\* not list them
RowE ==
    [Row(Str("CustomerB"), Str("N/A"), Flt(300), Str("$12,345.67"),
         Str("None mentioned"), Str("N/A"), Str("None"),
         Str("None"), Str("None mentioned"))
        EXCEPT !["Close Date"] = Str("2025-01-31"),
               !["Lost Opportunity Details"] = Str("Moved in house")]

\* empty strings throughout
RowF ==
    Row(Str("CustomerD"), Str(""), Flt(100), Str("$0"),
        Str(""), Str(""), Str(""), Str(""), NaN)

\* an amount that is no number
RowBadAmount ==
    Row(Str("CustomerE"), Str("Commercial"), Flt(200), Str("abc"),
        Str("Core"), Str("Pricing"), NaN, Str("Rival"), NaN)

\* a products cell that is a number
RowBadProducts ==
    Row(Str("CustomerF"), Str("Enterprise"), Flt(200), Str("$7"),
        Flt(300), Str("Support"), NaN, Str("Other"), NaN)

\* the third row of the spec's scenario
RowScenarioC ==
    Row(Str("CustomerC"), Str("Enterprise"), Flt(300), Str("$50,000"),
        Str("Core"), Str("Pricing"), NaN, NaN, NaN)

\* the spec's scenario: A and B in Commercial, C in Enterprise
ScenarioTable == <<RowA, RowB, RowScenarioC>>

\* an account whose name has the form of a segment's node id
RowPrefixed ==
    Row(Str("SEGMENT:Commercial"), Str("Commercial"), Flt(100), Str("$1,000"),
        Str("Core"), Str("Pricing"), NaN, Str("Rival"), NaN)

\* a row of a table with more reasons and competitors than
\* get_churn_patterns reports: its reason and first competitor carry the
\* letter
TopRow(name, letter, comp2) ==
    Row(Str(name), Str("Commercial"), Flt(100), Str("$1,000"),
        Str("Core"), Str("R" \o letter), NaN, Str("K" \o letter), comp2)

\* seven customers of one segment; each row after the first names a new
\* reason and competitor or repeats an earlier one, so that the tables
\* have from three to seven distinct reasons, with and without equal counts
TopTables ==
    {<<TopRow("T1", "a", NaN), TopRow("T2", l2, NaN),
       TopRow("T3", l3, Str("Ka")), TopRow("T4", l4, NaN),
       TopRow("T5", l5, NaN), TopRow("T6", l6, Str("Kg")),
       TopRow("T7", l7, NaN)>> :
        l2 \in {"a", "b"}, l3 \in {"b", "c"}, l4 \in {"c", "d"},
        l5 \in {"a", "e"}, l6 \in {"f", "b"}, l7 \in {"g", "f"}}

Rows == {RowA, RowB, RowC, RowD, RowE, RowF}

FaultyRows == {RowA, RowB, RowBadAmount, RowBadProducts}

TablesOver(rows) == UNION {[1..n -> rows] : n \in 0..MaxRows}

Tables == TablesOver(Rows) \cup {ScenarioTable}

FaultyTables == TablesOver(FaultyRows)

\* an account whose primary reason holds the prefix of a reason's node id
RowReasonInText ==
    Row(Str("CustomerR"), Str("Commercial"), Flt(100), Str("$1,000"),
        Str("Core"), Str("Price REASON:Fees"), NaN, NaN, NaN)

PrefixedRows == {RowA, RowB, RowD, RowPrefixed, RowReasonInText}

PrefixedTables == TablesOver(PrefixedRows)

\* a customer in a segment the agents ask about, with no churn reason
RowNoReason ==
    Row(Str("CustomerG"), Str("SMB"), Flt(100), Str("$1,000"),
        NaN, NaN, NaN, NaN, NaN)

\* the tables the agents' knowledge graph is built from
AgentTables == {<<>>, ScenarioTable, <<RowNoReason>>}

\* the questions put to the agents
Queries ==
    {"Why do Commercial customers churn?",
     "What is the industry benchmark for churn?",
     "Industry Trends in retention",
     "Which competitors win deals?"}

-----------------------------------------------------------------------------
(* the state machine: one instance, the table it is built from and the     *)
(* files it saves to and loads from                                        *)

Self == [graph |-> graph, entity_types |-> entity_types]

\* no workflow is running
Idle == [app |-> "none", pc |-> "idle"]

Called(op, args, ret, raised) ==
    [op |-> op, args |-> args, ret |-> ret, raised |-> raised]

InitWith(tables) ==
    /\ df \in tables
    /\ graph = NewInstance.graph
    /\ entity_types = NewInstance.entity_types
    /\ files = [p \in Paths |-> NoFile]
    /\ last = Called("__init__", <<>>, None, "none")
    /\ agent = None
    /\ flow = Idle

Init == InitWith(Tables)

\* kg = ChurnKnowledgeGraph(): a fresh instance takes the place of the old
New ==
    /\ last.op # "__init__"
    /\ graph' = NewInstance.graph
    /\ entity_types' = NewInstance.entity_types
    /\ last' = Called("__init__", <<>>, None, "none")
    /\ UNCHANGED <<df, files, appvars>>

\* kg.build_from_dataframe(df)
Build ==
    \E r \in {BuildFromDataframe(Self, df)} :
        /\ graph' = r.self.graph
        /\ entity_types' = r.self.entity_types
        /\ last' = Called("build_from_dataframe", <<>>, None, r.raised)
        /\ UNCHANGED <<df, files, appvars>>

\* kg.save_graph(filepath)
Save(filepath) ==
    /\ files' = SaveGraph(Self, files, filepath)
    /\ last' = Called("save_graph", <<Str(filepath)>>, None, "none")
    /\ UNCHANGED <<df, graph, entity_types, appvars>>

\* kg.load_graph(filepath) of a file that exists
Load(filepath) ==
    /\ files[filepath] # NoFile
    /\ \E r \in {LoadGraph(Self, files[filepath])} :
           /\ graph' = r.graph
           /\ entity_types' = r.entity_types
    /\ last' = Called("load_graph", <<Str(filepath)>>, None, "none")
    /\ UNCHANGED <<df, files, appvars>>

\* kg.load_graph(filepath) of a file that does not exist: open() raises
LoadMissing(filepath) ==
    /\ files[filepath] = NoFile
    /\ last' = Called("load_graph", <<Str(filepath)>>, None, "FileNotFoundError")
    /\ UNCHANGED <<df, graph, entity_types, files, appvars>>

\* the arguments the queries are called with: the texts of the table's
\* cells and one text that names nothing
CellTexts(col) == {df[i][col].str : i \in {j \in 1..Len(df) : IsStr(df[j][col])}}

TypeArgs == EntityTypeNames \cup {"Unknown"}
NodeArgs == CellTexts("Account Name") \cup {"NoSuchNode"}
RelationshipArgs ==
    {None, Str("BELONGS_TO"), Str("CHURNED_DUE_TO"), Str("SWITCHED_TO"),
     Str("USED_PRODUCT")}
SegmentArgs == CellTexts("Account Segment") \cup {"NoSuchSegment"}
ReasonArgs ==
    CellTexts("Primary Outcome Reason") \cup CellTexts("Outcome Sub Reason")
    \cup {"NoSuchReason"}
CompetitorArgs ==
    CellTexts("Competitor 1") \cup CellTexts("Competitor 2")
    \cup {"NoSuchCompetitor"}

\* a query that files an unknown entity type in the index, as
\* self.entity_types.setdefault(entity_type, set()) would
QueryInserting(op, args, ret) ==
    /\ last' = Called(op, args, ret, "none")
    /\ entity_types' =
           IF op = "get_entity_by_type" /\ args[1].str \notin DOMAIN entity_types
           THEN (args[1].str :> {}) @@ entity_types
           ELSE entity_types
    /\ UNCHANGED <<df, graph, files, appvars>>

\* a query: the instance, the table and the files stay as they are
Query(op, args, ret) ==
    /\ last' = Called(op, args, ret, "none")
    /\ UNCHANGED <<df, graph, entity_types, files, appvars>>

EntityByType(entity_type) ==
    Query("get_entity_by_type", <<Str(entity_type)>>,
          GetEntityByType(Self, entity_type))

Neighbors(node_id, relationship_type) ==
    Query("get_neighbors", <<Str(node_id), relationship_type>>,
          GetNeighbors(graph, node_id, relationship_type))

ByReason(reason) ==
    Query("query_customers_by_reason", <<Str(reason)>>,
          QueryCustomersByReason(graph, reason))

ByCompetitor(competitor) ==
    Query("query_customers_by_competitor", <<Str(competitor)>>,
          QueryCustomersByCompetitor(graph, competitor))

BySegment(segment) ==
    Query("query_customers_by_segment", <<Str(segment)>>,
          QueryCustomersBySegment(graph, segment))

ChurnPatterns(segment) ==
    Query("get_churn_patterns", <<Str(segment)>>,
          GetChurnPatterns(graph, segment))

Next ==
    \/ New
    \/ Build
    \/ \E filepath \in Paths : Save(filepath)
    \/ \E filepath \in Paths : Load(filepath)
    \/ \E filepath \in Paths : LoadMissing(filepath)
    \/ \E entity_type \in TypeArgs : EntityByType(entity_type)
    \/ \E node_id \in NodeArgs, relationship_type \in RelationshipArgs :
           Neighbors(node_id, relationship_type)
    \/ \E reason \in ReasonArgs : ByReason(reason)
    \/ \E competitor \in CompetitorArgs : ByCompetitor(competitor)
    \/ \E segment \in SegmentArgs : BySegment(segment)
    \/ \E segment \in SegmentArgs : ChurnPatterns(segment)

Spec == Init /\ [][Next]_vars

\* the same instance over tables that hold a record the build fails on
InitFaulty == InitWith(FaultyTables)

SpecFaulty == InitFaulty /\ [][Next]_vars

\* the same instance over the tables of seven customers
InitTop == InitWith(TopTables)

SpecTop == InitTop /\ [][Next]_vars

\* the same instance over tables that hold an account named like a node
\* id, or a reason that holds the prefix of a node id
InitPrefixed == InitWith(PrefixedTables)

SpecPrefixed == InitPrefixed /\ [][Next]_vars

-----------------------------------------------------------------------------
(* the agents' state machine: the tools are fixed at construction, and     *)
(* each node of a running workflow is one step                             *)

\* the knowledge graph built from the table, and the agents constructed
\* with or without each tool
InitAgents ==
    /\ df \in AgentTables
    /\ \E kg \in {BuildFromDataframe(NewInstance, df).self} :
           /\ graph = kg.graph
           /\ entity_types = kg.entity_types
           /\ agent \in {CreateAgent(rag_retriever, knowledge_graph,
                                     use_tavily, tavily_api_key,
                                     tavily_raises) :
                            rag_retriever \in {None, Retriever},
                            knowledge_graph \in {None, kg},
                            use_tavily \in BOOLEAN,
                            tavily_api_key \in BOOLEAN,
                            tavily_raises \in BOOLEAN}
    /\ files = [p \in Paths |-> NoFile]
    /\ last = Called("build_from_dataframe", <<>>, None, "none")
    /\ flow = Idle

\* the customer_id a caller hands to run: none, or a name
CustomerIds == {None, Str("CustomerA")}

\* CustomerChurnAgent.run(query, customer_id): the graph is entered at
\* understand_query
Run(query, customer_id) ==
    /\ agent # None
    /\ flow.pc = "idle"
    /\ flow' = [app |-> "churn_agent", pc |-> "understand_query",
                query |-> query,
                state |-> InitialAgentState(query, customer_id),
                visited |-> <<>>, failed |-> {}, response |-> None]
    /\ UNCHANGED <<df, graph, entity_types, files, last, agent>>

\* one node of the agent's graph has run with outcome r: its update is
\* written to the channels and the graph moves along the edge to next; an
\* exception that leaves the node leaves app.invoke, and run answers with
\* the failure response. After the last node run formats the response.
AgentStep(node, r, call_failed, next) ==
    /\ flow' =
           IF r.raised # "none"
           THEN [flow EXCEPT !.pc = "END",
                             !.visited = Append(@, node),
                             !.failed = @ \cup {node},
                             !.response = AgentFailure(flow.query, r.raised)]
           ELSE [flow EXCEPT
                    !.pc = next,
                    !.state = ApplyUpdate(@, r.self),
                    !.visited = Append(@, node),
                    !.failed = IF call_failed THEN @ \cup {node} ELSE @,
                    !.response =
                        IF next = "END"
                        THEN AgentResponse(flow.query,
                                           ApplyUpdate(flow.state, r.self))
                        ELSE @]
    /\ UNCHANGED <<df, graph, entity_types, files, last, agent>>

AtNode(app, node) == flow.app = app /\ flow.pc = node

NodeUnderstandQuery ==
    /\ AtNode("churn_agent", "understand_query")
    /\ \E reply \in ClassifyReplies :
           AgentStep("understand_query", UnderstandQuery(flow.state, reply),
                     reply.raised, "retrieve_documents")

NodeRetrieveDocuments ==
    /\ AtNode("churn_agent", "retrieve_documents")
    /\ \E reply \in RetrieverReplies :
           AgentStep("retrieve_documents",
                     RetrieveDocuments(agent, flow.state, reply),
                     IsSet(agent.rag_retriever) /\ reply.raised,
                     "query_knowledge_graph")

\* the node, then the conditional edge _should_search_web on the new state
NodeQueryKnowledgeGraph ==
    /\ AtNode("churn_agent", "query_knowledge_graph")
    /\ \E graph_call \in {"none", "graph unavailable"} :
           \E r \in QueryKnowledgeGraph(agent, flow.state, graph_call) :
               AgentStep("query_knowledge_graph", r,
                         IsSet(agent.knowledge_graph) /\ graph_call # "none",
                         IF ShouldSearchWeb(agent,
                                            ApplyUpdate(flow.state, r.self))
                                = "search_web"
                         THEN "search_web" ELSE "analyze_churn")

NodeSearchWeb ==
    /\ AtNode("churn_agent", "search_web")
    /\ \E reply \in WebReplies :
           AgentStep("search_web", SearchWeb(agent, flow.state, reply),
                     IsSet(agent.tavily_search) /\ reply.raised,
                     "analyze_churn")

NodeAnalyzeChurn ==
    /\ AtNode("churn_agent", "analyze_churn")
    /\ \E reply \in AnalysisReplies :
           AgentStep("analyze_churn", AnalyzeChurnRisk(flow.state, reply),
                     reply.raised, "generate_recommendations")

NodeGenerateRecommendations ==
    /\ AtNode("churn_agent", "generate_recommendations")
    /\ \E reply \in RecommendationReplies :
           AgentStep("generate_recommendations",
                     GenerateRecommendations(flow.state, reply),
                     reply.raised, "synthesize_response")

NodeSynthesizeResponse ==
    /\ AtNode("churn_agent", "synthesize_response")
    /\ AgentStep("synthesize_response", SynthesizeResponse(flow.state),
                 FALSE, "END")

NextAgents ==
    \/ \E query \in Queries, customer_id \in CustomerIds :
           Run(query, customer_id)
    \/ NodeUnderstandQuery
    \/ NodeRetrieveDocuments
    \/ NodeQueryKnowledgeGraph
    \/ NodeSearchWeb
    \/ NodeAnalyzeChurn
    \/ NodeGenerateRecommendations
    \/ NodeSynthesizeResponse

SpecAgents == InitAgents /\ [][NextAgents]_vars

\* a node of the running workflow takes its step; app.invoke runs the
\* nodes one after the other until the graph ends
NextNode ==
    \/ NodeUnderstandQuery
    \/ NodeRetrieveDocuments
    \/ NodeQueryKnowledgeGraph
    \/ NodeSearchWeb
    \/ NodeAnalyzeChurn
    \/ NodeGenerateRecommendations
    \/ NodeSynthesizeResponse

\* the agents constructed with every tool, over the scenario's graph
InitAgentsLive ==
    /\ InitAgents
    /\ df = ScenarioTable
    /\ agent = CreateAgent(Retriever, Self, TRUE, TRUE, FALSE)

\* app.invoke does not stop between nodes
SpecAgentsLive ==
    InitAgentsLive /\ [][NextAgents]_vars /\ WF_vars(NextNode)

-----------------------------------------------------------------------------

(* The API process (src/src/backend/api.py): startup_event fills the       *)
(* module's globals. The graph's file is written by another process, the   *)
(* build script, which saves the graph it built.                           *)

CachePath == "cache/churn_knowledge_graph.pkl"

\* the functions the body of class ChurnKnowledgeGraph defines
KnowledgeGraphAttrs ==
    {"__init__", "build_from_dataframe", "_extract_customers",
     "_extract_segments", "_extract_churn_reasons", "_extract_competitors",
     "_extract_products", "_build_relationships", "_log_statistics",
     "get_entity_by_type", "get_neighbors", "query_customers_by_reason",
     "query_customers_by_competitor", "query_customers_by_segment",
     "get_churn_patterns", "save_graph", "load_graph"}

\* the versions of CPython the API process runs on, as the minor of 3.x:
\* api.py imports churn_agent.py, whose f-string at line 431 has a
\* backslash in an expression, a syntax error before 3.12
PythonMinors == 12..14

\* the names the class has without defining a function of that name: those
\* the class statement sets and those every class has from object and from
\* its metaclass type.  __type_params__ is there from 3.12,
\* __firstlineno__ and __static_attributes__ from 3.13 and __annotate__
\* from 3.14
ObjectAttrs(minor) ==
    (IF minor >= 12 THEN {"__type_params__"} ELSE {})
    \cup (IF minor >= 13 THEN {"__firstlineno__", "__static_attributes__"}
          ELSE {})
    \cup (IF minor >= 14 THEN {"__annotate__"} ELSE {})
    \cup
    {"__annotations__", "__base__", "__bases__", "__basicsize__", "__call__",
     "__class__", "__delattr__", "__dict__", "__dictoffset__", "__dir__",
     "__doc__", "__eq__", "__flags__", "__format__", "__ge__",
     "__getattribute__", "__getstate__", "__gt__", "__hash__",
     "__init_subclass__", "__instancecheck__", "__itemsize__", "__le__",
     "__lt__", "__module__", "__mro__", "__name__", "__ne__", "__new__",
     "__or__", "__prepare__", "__qualname__", "__reduce__", "__reduce_ex__",
     "__repr__", "__ror__", "__setattr__", "__sizeof__", "__str__",
     "__subclasscheck__", "__subclasses__", "__subclasshook__",
     "__text_signature__", "__weakref__", "__weakrefoffset__", "mro"}

\* the attribute lookup ChurnKnowledgeGraph.<name> on the class under
\* CPython 3.minor: the exception it raises, or "none" when the name is
\* found
ClassGetattr(name, minor) ==
    IF name \in KnowledgeGraphAttrs \cup ObjectAttrs(minor) THEN "none"
    ELSE "AttributeError"

\* the value of kg after lines 86-93: None without a file; with one, the
\* try block assigns kg only if ChurnKnowledgeGraph.load(str(kg_path))
\* returns, and the exception of the lookup of load is logged and dropped
StartupKg(fs, minor) ==
    IF fs[CachePath] = NoFile THEN None
    ELSE IF ClassGetattr("load", minor) # "none" THEN None
    ELSE LoadGraph(NewInstance, fs[CachePath])

\* the globals after startup_event; openai_api_key and tavily_api_key say
\* whether the variable is set, retriever_failed whether the retriever's
\* construction or its indexing raised, agent_tavily_raises and
\* team_tavily_raises whether the constructor of TavilySearchResults raises
\* in the agent's and in the research team's __init__
\* (minor is the version 3.minor of the interpreter)
StartupGlobals(fs, openai_api_key, tavily_api_key, retriever_failed, agent_tavily_raises, team_tavily_raises, minor) ==
    IF ~openai_api_key \/ retriever_failed
    THEN [churn_agent |-> None, multi_agent_system |-> None]
    ELSE [churn_agent |->
              CreateAgent(Retriever, StartupKg(fs, minor),
                          tavily_api_key, tavily_api_key,
                          agent_tavily_raises),
          multi_agent_system |->
              CreateSystem(Retriever, StartupKg(fs, minor),
                           tavily_api_key, tavily_api_key,
                           team_tavily_raises)]

InitStartup ==
    /\ df \in AgentTables
    /\ graph = NewInstance.graph
    /\ entity_types = NewInstance.entity_types
    /\ files = [p \in {CachePath} |-> NoFile]
    /\ last = Called("__init__", <<>>, None, "none")
    /\ agent = None
    /\ flow = Idle

\* the API process starts: its globals are None until startup_event
\* assigns them
Startup(openai_api_key, tavily_api_key, retriever_failed, agent_tavily_raises, team_tavily_raises, minor) ==
    \E globals \in {StartupGlobals(files, openai_api_key, tavily_api_key,
                                   retriever_failed, agent_tavily_raises,
                                   team_tavily_raises, minor)} :
        /\ agent' = globals.churn_agent
        /\ last' = Called("startup_event",
                          <<openai_api_key, tavily_api_key, retriever_failed,
                            agent_tavily_raises, team_tavily_raises, minor>>,
                          globals, "none")
        /\ flow' = Idle
        /\ UNCHANGED <<df, graph, entity_types, files>>

NextStartup ==
    \/ New
    \/ Build
    \/ Save(CachePath)
    \/ \E openai_api_key \in BOOLEAN, tavily_api_key \in BOOLEAN,
          retriever_failed \in BOOLEAN, agent_tavily_raises \in BOOLEAN,
          team_tavily_raises \in BOOLEAN, minor \in PythonMinors :
           Startup(openai_api_key, tavily_api_key, retriever_failed,
                   agent_tavily_raises, team_tavily_raises, minor)

SpecStartup == InitStartup /\ [][NextStartup]_vars

-----------------------------------------------------------------------------

(* The multi-agent system at work: analyze(query) runs the coordination    *)
(* graph; its research_phase node calls research(), which runs the         *)
(* research team's graph node by node, and its writing_phase node calls    *)
(* write(), which runs the writing team's graph node by node.              *)

\* the question put to the system: the coordinator and its teams hand it
\* to the model, the retriever and the search, and no condition of theirs
\* reads its text
SystemQueries == {"Why do Commercial customers churn?"}

\* the system constructed over the graph of a built table
InitSystem ==
    /\ df \in AgentTables
    /\ \E kg \in {BuildFromDataframe(NewInstance, df).self} :
           /\ graph = kg.graph
           /\ entity_types = kg.entity_types
           /\ agent \in {CreateSystem(rag_retriever, knowledge_graph,
                                      use_tavily, TRUE, tavily_raises) :
                            rag_retriever \in {None, Retriever},
                            knowledge_graph \in {None, kg},
                            use_tavily \in BOOLEAN,
                            tavily_raises \in BOOLEAN}
    /\ files = [p \in Paths |-> NoFile]
    /\ last = Called("build_from_dataframe", <<>>, None, "none")
    /\ flow = Idle

\* MultiAgentChurnSystem.analyze(query): the graph is entered at
\* classify_query
Analyze(query) ==
    /\ flow.pc = "idle"
    /\ flow' = [app |-> "multi_agent", pc |-> "classify_query",
                query |-> query,
                state |-> InitialSystemState(query),
                team |-> None, retrieved |-> None,
                research_results |-> None,
                writing |-> None, writing_results |-> None,
                response |-> None]
    /\ UNCHANGED <<df, graph, entity_types, files, last, agent>>

NodeClassifyQuery ==
    /\ AtNode("multi_agent", "classify_query")
    /\ \E reply \in CategoryReplies :
           flow' = [flow EXCEPT
                       !.pc = "research_phase",
                       !.state = ApplyUpdate(@, ClassifyQuery(@, reply).self)]
    /\ UNCHANGED <<df, graph, entity_types, files, last, agent>>

\* research_phase calls research(): the team's graph starts with
\* gather_internal_knowledge; retrieved keeps the retriever's reply
TeamGatherInternalKnowledge ==
    /\ AtNode("multi_agent", "research_phase")
    /\ \E reply \in RetrieverReplies :
           flow' = [flow EXCEPT
                       !.pc = "search_external_sources",
                       !.retrieved = reply,
                       !.team =
                           ApplyUpdate(
                               InitialResearchState(flow.query),
                               GatherInternalKnowledge(
                                   agent.research_team,
                                   InitialResearchState(flow.query),
                                   reply).self)]
    /\ UNCHANGED <<df, graph, entity_types, files, last, agent>>

TeamSearchExternalSources ==
    /\ AtNode("multi_agent", "search_external_sources")
    /\ \E replies \in [1..3 -> WebReplies] :
           flow' = [flow EXCEPT
                       !.pc = "synthesize_background",
                       !.team =
                           ApplyUpdate(@, SearchExternalSources(
                                              agent.research_team, @,
                                              replies).self)]
    /\ UNCHANGED <<df, graph, entity_types, files, last, agent>>

\* the team's last node; research() returns its dict, the state of the
\* team's graph is gone with the call, and _research_phase stores the
\* dict in the coordinator's state
TeamSynthesizeBackground ==
    /\ AtNode("multi_agent", "synthesize_background")
    /\ \E reply \in SynthesisReplies :
           \E research_results \in
                  {ResearchResults(flow.query,
                       ApplyUpdate(flow.team,
                           SynthesizeBackground(flow.team, reply).self))} :
               flow' = [flow EXCEPT
                           !.pc = "writing_phase",
                           !.team = None,
                           !.retrieved = None,
                           !.research_results = research_results,
                           !.state =
                               ApplyUpdate(@, ResearchPhase(
                                                  @, research_results).self)]
    /\ UNCHANGED <<df, graph, entity_types, files, last, agent>>

\* writing_phase calls write(): the team's graph starts with
\* find_use_cases on the initial state; writing is the state of the
\* team's graph
WritingFindUseCases ==
    /\ AtNode("multi_agent", "writing_phase")
    /\ \E reply \in RetrieverReplies :
           \E initial_state \in
                  {InitialWritingState(flow.query,
                                       flow.state.background_context)} :
               flow' = [flow EXCEPT
                           !.pc = "draft_response",
                           !.writing =
                               ApplyUpdate(initial_state,
                                           FindUseCases(agent.writing_team,
                                                        initial_state,
                                                        reply).self)]
    /\ UNCHANGED <<df, graph, entity_types, files, last, agent>>

\* when the node raises the team's graph stops, write() returns the dict
\* of its except branch and _writing_phase stores what that dict holds
WritingDraftResponse ==
    /\ AtNode("multi_agent", "draft_response")
    /\ \E model \in WriterReplies :
           \E drafted \in {DraftResponse(flow.writing, model)} :
               IF drafted.raised = "none"
               THEN flow' = [flow EXCEPT
                                !.pc = "edit_response",
                                !.writing = ApplyUpdate(@, drafted.self)]
               ELSE \E writing_results \in
                           {WritingError(flow.query, drafted.raised)} :
                        flow' = [flow EXCEPT
                                    !.pc = "synthesize_final",
                                    !.writing = None,
                                    !.writing_results = writing_results,
                                    !.state =
                                        ApplyUpdate(@, WritingPhase(
                                                           @, writing_results).self)]
    /\ UNCHANGED <<df, graph, entity_types, files, last, agent>>

WritingEditResponse ==
    /\ AtNode("multi_agent", "edit_response")
    /\ \E model \in WriterReplies :
           flow' = [flow EXCEPT
                       !.pc = "add_citations",
                       !.writing =
                           ApplyUpdate(@, EditResponse(@, model).self)]
    /\ UNCHANGED <<df, graph, entity_types, files, last, agent>>

WritingAddCitations ==
    /\ AtNode("multi_agent", "add_citations")
    /\ flow' = [flow EXCEPT
                   !.pc = "enhance_empathy",
                   !.writing = ApplyUpdate(@, AddCitations(@).self)]
    /\ UNCHANGED <<df, graph, entity_types, files, last, agent>>

WritingEnhanceEmpathy ==
    /\ AtNode("multi_agent", "enhance_empathy")
    /\ \E model \in WriterReplies :
           flow' = [flow EXCEPT
                       !.pc = "check_style",
                       !.writing =
                           ApplyUpdate(@, EnhanceEmpathy(@, model).self)]
    /\ UNCHANGED <<df, graph, entity_types, files, last, agent>>

\* the team's last node; write() returns its dict, the state of the
\* team's graph is gone with the call, and _writing_phase stores the dict
\* in the coordinator's state
WritingCheckStyle ==
    /\ AtNode("multi_agent", "check_style")
    /\ \E final_state \in
              {ApplyUpdate(flow.writing, CheckStyle(flow.writing).self)} :
           \E writing_results \in {WritingResults(flow.query, final_state)} :
               flow' = [flow EXCEPT
                           !.pc = "synthesize_final",
                           !.writing = None,
                           !.writing_results = writing_results,
                           !.state =
                               ApplyUpdate(@, WritingPhase(
                                                  @, writing_results).self)]
    /\ UNCHANGED <<df, graph, entity_types, files, last, agent>>

\* compensated says which sum() the interpreter running the system has
NodeSynthesizeFinal ==
    /\ AtNode("multi_agent", "synthesize_final")
    /\ \E compensated \in BOOLEAN :
           \E final_state \in
                  {ApplyUpdate(flow.state,
                               SynthesizeFinal(flow.state, compensated).self)} :
               flow' = [flow EXCEPT
                           !.pc = "END",
                           !.state = final_state,
                           !.response =
                               SystemResponse(flow.query, final_state)]
    /\ UNCHANGED <<df, graph, entity_types, files, last, agent>>

NextSystem ==
    \/ \E query \in SystemQueries : Analyze(query)
    \/ NodeClassifyQuery
    \/ TeamGatherInternalKnowledge
    \/ TeamSearchExternalSources
    \/ TeamSynthesizeBackground
    \/ WritingFindUseCases
    \/ WritingDraftResponse
    \/ WritingEditResponse
    \/ WritingAddCitations
    \/ WritingEnhanceEmpathy
    \/ WritingCheckStyle
    \/ NodeSynthesizeFinal

SpecSystem == InitSystem /\ [][NextSystem]_vars

-----------------------------------------------------------------------------

(* what the properties below read off a state *)

\* the last call was a build that returned
Built == last.op = "build_from_dataframe" /\ last.raised = "none"

\* the rows of the table whose account name is name
RowsNamed(name) == {i \in 1..Len(df) : df[i]["Account Name"] = Str(name)}

\* the nodes whose type attribute is 'Customer'
CustomerNodes(g) == NodesOfType(g, "Customer")

\* the targets of the out-edges of node n that carry the relationship
EdgesOut(g, n, relationship) ==
    {v \in DOMAIN g.attr :
        /\ HasEdge(g, n, v)
        /\ Get(g.eattr[<<n, v>>], "relationship") = Str(relationship)}

\* the texts of the cells of a column that are strings other than ''
Texts(col) ==
    {df[i][col].str :
        i \in {j \in 1..Len(df) : IsStr(df[j][col]) /\ df[j][col] # Str("")}}

\* the elements of a list
Elems(list) == {list[k] : k \in 1..Len(list)}

NoDuplicates(list) ==
    \A j, k \in 1..Len(list) : list[j] = list[k] => j = k

-----------------------------------------------------------------------------
(* C1 *)

\* C1 as stated: after build_from_dataframe on any table, every node of
\* type Customer has exactly one outgoing BELONGS_TO edge.
C1_ExactlyOneBelongsTo ==
    Built =>
        \A n \in CustomerNodes(graph) :
            Cardinality(EdgesOut(graph, n, "BELONGS_TO")) = 1

\* C1 amended: after a build, every Customer node has one BELONGS_TO edge
\* for each distinct segment value, neither missing nor empty, of the rows
\* with its account name, and no other: none when the segment is missing,
\* one when its rows name one segment, two when they name two.
C1_BelongsToPerSegmentValue ==
    Built =>
        \A n \in CustomerNodes(graph) :
            EdgesOut(graph, n, "BELONGS_TO") =
                {"SEGMENT:" \o df[i]["Account Segment"].str :
                    i \in {j \in RowsNamed(n) :
                              df[j]["Account Segment"] \notin {NaN, Str("")}}}

\* a build of a table whose two rows name one account in two segments
C1_Witness ==
    /\ Built
    /\ Len(df) = 2
    /\ df[1]["Account Name"] = df[2]["Account Name"]
    /\ Cardinality(EdgesOut(graph, df[1]["Account Name"].str, "BELONGS_TO")) = 2

-----------------------------------------------------------------------------
(* C2 *)

SentinelTexts == {"N/A", "None mentioned", "None", ""}

\* the product tokens of the table's rows
ProductTexts ==
    UNION {Elems(ProductTokens(df[i]["Products (Rollup)"].str)) :
              i \in {j \in 1..Len(df) : IsStr(df[j]["Products (Rollup)"])}}

\* no node with that id, hence no edge to it
Absent(node_id) ==
    /\ ~HasNode(graph, node_id)
    /\ \A e \in DOMAIN graph.eattr : e[2] # node_id

\* C2 as stated: a sentinel text ("N/A", "None mentioned", "None", "") in
\* the segment, primary-reason, sub-reason, competitor or product field
\* never produces a node, an index entry or an edge.
C2_NoSentinelAnywhere ==
    Built =>
        \A v \in SentinelTexts :
            /\ Str(v) \in Elems(Unique(df, "Account Segment"))
                   => Absent("SEGMENT:" \o v) /\ v \notin entity_types["Segment"]
            /\ Str(v) \in Elems(Unique(df, "Primary Outcome Reason"))
                   => Absent("REASON:" \o v) /\ v \notin entity_types["ChurnReason"]
            /\ Str(v) \in Elems(Unique(df, "Outcome Sub Reason"))
                   => Absent("SUBREASON:" \o v) /\ v \notin entity_types["ChurnReason"]
            /\ Str(v) \in Elems(Unique(df, "Competitor 1"))
                          \cup Elems(Unique(df, "Competitor 2"))
                   => Absent("COMPETITOR:" \o v) /\ v \notin entity_types["Competitor"]
            /\ v \in ProductTexts
                   => Absent("PRODUCT:" \o v) /\ v \notin entity_types["Product"]

\* C2 amended: after a build there is no node, index entry or edge for the
\* empty string in any of the fields, for "N/A" as a sub-reason, competitor
\* or product, for "None mentioned" as a competitor, or for "None" as a
\* product; the other placements of these texts are kept like any value
\* (the reason index holds "N/A" or "None" only when a column that keeps
\* it has it).
C2_FilteredSentinels ==
    Built =>
        /\ \A prefix \in {"SEGMENT:", "REASON:", "SUBREASON:", "COMPETITOR:",
                          "PRODUCT:"} : Absent(prefix)
        /\ \A t \in EntityTypeNames \ {"Customer"} : "" \notin entity_types[t]
        /\ Absent("SUBREASON:N/A")
        /\ Absent("COMPETITOR:N/A") /\ Absent("COMPETITOR:None mentioned")
        /\ Absent("PRODUCT:N/A") /\ Absent("PRODUCT:None")
        /\ entity_types["Competitor"] \cap {"N/A", "None mentioned"} = {}
        /\ entity_types["Product"] \cap {"N/A", "None"} = {}
        /\ "N/A" \in entity_types["ChurnReason"]
               => Str("N/A") \in Elems(Unique(df, "Primary Outcome Reason"))
        /\ \A v \in SentinelTexts \ {""} :
              /\ Str(v) \in Elems(Unique(df, "Account Segment"))
                     => HasNode(graph, "SEGMENT:" \o v)
              /\ Str(v) \in Elems(Unique(df, "Primary Outcome Reason"))
                     => HasNode(graph, "REASON:" \o v)

\* a build of a table that has a filtered placeholder in a competitor
\* column, the sub-reason column and the product column, and an empty
\* segment
C2_Witness ==
    /\ Built
    /\ Str("None mentioned") \in Elems(Unique(df, "Competitor 1"))
    /\ Str("N/A") \in Elems(Unique(df, "Outcome Sub Reason"))
    /\ Str("") \in Elems(Unique(df, "Account Segment"))
    /\ NumberOfNodes(graph) > 2

-----------------------------------------------------------------------------
(* C3, C4: a record the build fails on *)

\* the last row with the account name
LastRowNamed(name) ==
    CHOOSE i \in RowsNamed(name) : \A j \in RowsNamed(name) : j <= i

\* the arr_lost C3 states for an amount: the number a string holds once
\* '$' and ',' are stripped, 0.0 for any other string and for a missing
\* amount
ClaimedArrLost(amount) ==
    IF IsStr(amount)
    THEN LET f == ParseFloat(ReplaceChar(ReplaceChar(amount.str, "$", ""), ",", ""))
         IN  IF f.ok THEN f.val ELSE 0
    ELSE IF amount = NaN THEN 0 ELSE amount.flt

\* C3: a build of a table with an Amount string that is not numeric does
\* not raise and gives the customer arr_lost 0.0; "$12,345.67" gives
\* 12345.67 and a missing amount 0.0.
C3_MalformedAmountIsZero ==
    last.op = "build_from_dataframe" =>
        /\ last.raised = "none"
        /\ \A i \in 1..Len(df) :
              LET n == df[i]["Account Name"].str
              IN  /\ HasNode(graph, n)
                  /\ Get(graph.attr[n], "arr_lost") =
                         Flt(ClaimedArrLost(df[LastRowNamed(n)]["Amount"]))

\* a row whose Amount or Products cell makes its extraction fail
BadRecord(row) ==
    \/ /\ IsStr(row["Amount"])
       /\ \E k \in 1..Len(row["Amount"].str) :
              Char(row["Amount"].str, k) \notin Digits \cup {"$", ",", "."}
    \/ "flt" \in DOMAIN row["Products (Rollup)"]

\* C4: one bad record never prevents the other rows from loading: the
\* build returns, and the customer node and the segment and reason edges
\* of every other row are present.
C4_OtherRowsLoad ==
    (last.op = "build_from_dataframe" /\ \E i \in 1..Len(df) : BadRecord(df[i]))
    => /\ last.raised = "none"
       /\ \A i \in 1..Len(df) :
             ~BadRecord(df[i]) =>
                 LET n == df[i]["Account Name"].str
                 IN  /\ n \in CustomerNodes(graph)
                     /\ "SEGMENT:" \o df[i]["Account Segment"].str
                            \in EdgesOut(graph, n, "BELONGS_TO")
                     /\ "REASON:" \o df[i]["Primary Outcome Reason"].str
                            \in EdgesOut(graph, n, "CHURNED_DUE_TO")

-----------------------------------------------------------------------------
(* C5 *)

\* no Customer node has a BELONGS_TO edge to the segment's node
NoCustomersIn(g, segment) ==
    \A n \in CustomerNodes(g) :
        "SEGMENT:" \o segment \notin EdgesOut(g, n, "BELONGS_TO")

\* C5 as stated: get_churn_patterns on a segment without customers does
\* not raise and returns a record with customer count 0 and means 0.0.
C5_ZeroedRecord ==
    (last.op = "get_churn_patterns" /\ NoCustomersIn(graph, last.args[1].str))
    => /\ last.raised = "none"
       /\ {"customer_count", "avg_tenure", "avg_arr_lost"} \subseteq DOMAIN last.ret
       /\ last.ret["customer_count"] = 0
       /\ last.ret["avg_tenure"] = [num |-> 0, den |-> 1]
       /\ last.ret["avg_arr_lost"] = [num |-> 0, den |-> 1]

\* C5 amended: get_churn_patterns on a segment without customers does not
\* raise and returns the empty record: it has no entries, neither a
\* customer count nor means.
C5_EmptyRecord ==
    (last.op = "get_churn_patterns" /\ NoCustomersIn(graph, last.args[1].str))
    => /\ last.raised = "none"
       /\ DOMAIN last.ret = {}

\* get_churn_patterns("NoSuchSegment") on a graph that has customers
C5_Witness ==
    /\ last.op = "get_churn_patterns"
    /\ last.args = <<Str("NoSuchSegment")>>
    /\ \E n \in CustomerNodes(graph) : EdgesOut(graph, n, "BELONGS_TO") # {}
    /\ DOMAIN last.ret = {}

-----------------------------------------------------------------------------
(* C6 *)

\* the names of the Segment nodes
SegmentsPresent(g) ==
    {g.attr[n]["name"].str : n \in NodesOfType(g, "Segment")}

\* C6: once the graph is saved, loading the file into a fresh instance
\* gives a graph with the same node count and edge count and the same
\* results of query_customers_by_segment and get_churn_patterns for every
\* segment present before saving.
C6_SaveLoadRoundTrip ==
    last.op = "save_graph" =>
        LET loaded == LoadGraph(NewInstance, files[last.args[1].str]).graph
        IN  /\ NumberOfNodes(loaded) = NumberOfNodes(graph)
            /\ NumberOfEdges(loaded) = NumberOfEdges(graph)
            /\ \A s \in SegmentsPresent(graph) :
                  /\ QueryCustomersBySegment(loaded, s)
                         = QueryCustomersBySegment(graph, s)
                  /\ GetChurnPatterns(loaded, s) = GetChurnPatterns(graph, s)

\* a saved graph with a segment of two customers
C6_Witness ==
    /\ last.op = "save_graph"
    /\ \E s \in SegmentsPresent(graph) :
           Len(QueryCustomersBySegment(graph, s)) = 2

-----------------------------------------------------------------------------
(* C7 *)

\* C7: after load_graph on any instance, the entity-type index holds for
\* each type exactly the identifiers (node id of a Customer, name of the
\* others) of the loaded graph's nodes of that type.
C7_IndexIsLoadedGraphs ==
    (last.op = "load_graph" /\ last.raised = "none") =>
        \A t \in EntityTypeNames :
            entity_types[t] =
                {IF t = "Customer" THEN n ELSE graph.attr[n]["name"].str :
                    n \in NodesOfType(graph, t)}

-----------------------------------------------------------------------------
(* C8 *)

\* C8: query_customers_by_segment(s) returns exactly the customers whose
\* BELONGS_TO edge points to the node of segment s, each once, and for
\* every returned customer get_neighbors(c, "BELONGS_TO") includes that
\* node.
C8_CustomersBySegment ==
    last.op = "query_customers_by_segment" =>
        LET s == last.args[1].str
        IN  /\ Elems(last.ret) =
                   {n \in CustomerNodes(graph) :
                       "SEGMENT:" \o s \in EdgesOut(graph, n, "BELONGS_TO")}
            /\ NoDuplicates(last.ret)
            /\ \A c \in Elems(last.ret) :
                   \E pair \in Elems(GetNeighbors(graph, c, Str("BELONGS_TO"))) :
                       pair[1] = "SEGMENT:" \o s

\* a query that returned the two customers of a segment
C8_Witness ==
    /\ last.op = "query_customers_by_segment"
    /\ Len(last.ret) = 2

-----------------------------------------------------------------------------
(* C9 *)

\* C9: for every identifier r of the ChurnReason index,
\* query_customers_by_reason(r) returns exactly the customers with a
\* CHURNED_DUE_TO edge to a reason node named r; for every c of the
\* Competitor index, query_customers_by_competitor(c) returns exactly the
\* customers with a SWITCHED_TO edge to c's node.
C9_CustomersByIndexedName ==
    /\ (last.op = "query_customers_by_reason"
            /\ last.args[1].str \in GetEntityByType(Self, "ChurnReason"))
       => Elems(last.ret) =
              {n \in CustomerNodes(graph) :
                  \E m \in NodesOfType(graph, "ChurnReason") :
                      /\ graph.attr[m]["name"] = last.args[1]
                      /\ m \in EdgesOut(graph, n, "CHURNED_DUE_TO")}
    /\ (last.op = "query_customers_by_competitor"
            /\ last.args[1].str \in GetEntityByType(Self, "Competitor"))
       => Elems(last.ret) =
              {n \in CustomerNodes(graph) :
                  "COMPETITOR:" \o last.args[1].str
                      \in EdgesOut(graph, n, "SWITCHED_TO")}

-----------------------------------------------------------------------------
(* C10 *)

\* the texts the table has both as a kept primary reason and as a kept
\* sub-reason
ReasonTextsOfBothKinds ==
    Texts("Primary Outcome Reason") \cap (Texts("Outcome Sub Reason") \ {"N/A"})

\* the ChurnReason nodes named text
ReasonNodesNamed(g, text) ==
    {m \in NodesOfType(g, "ChurnReason") : g.attr[m]["name"] = Str(text)}

\* C10 as stated: a primary reason and a sub-reason with the same text are
\* one node, the target of the primary and of the sub-reason edges.
C10_OneReasonNode ==
    Built =>
        \A t \in ReasonTextsOfBothKinds :
            /\ Cardinality(ReasonNodesNamed(graph, t)) = 1
            /\ \A i, j \in 1..Len(df) :
                  (df[i]["Primary Outcome Reason"] = Str(t)
                       /\ df[j]["Outcome Sub Reason"] = Str(t))
                  => \E m \in ReasonNodesNamed(graph, t) :
                         /\ m \in EdgesOut(graph, df[i]["Account Name"].str,
                                           "CHURNED_DUE_TO")
                         /\ m \in EdgesOut(graph, df[j]["Account Name"].str,
                                           "CHURNED_DUE_TO")

\* C10 amended: a primary reason and a sub-reason with the same text are
\* two nodes, REASON:text of reason_type primary and SUBREASON:text of
\* reason_type sub; a customer's CHURNED_DUE_TO edges go to the REASON:
\* nodes of its rows' primary reasons and the SUBREASON: nodes of its
\* rows' sub-reasons; only the ChurnReason index holds the text once.
C10_TwoReasonNodes ==
    Built =>
        /\ \A t \in ReasonTextsOfBothKinds :
              /\ ReasonNodesNamed(graph, t) = {"REASON:" \o t, "SUBREASON:" \o t}
              /\ graph.attr["REASON:" \o t]["reason_type"] = Str("primary")
              /\ graph.attr["SUBREASON:" \o t]["reason_type"] = Str("sub")
              /\ t \in entity_types["ChurnReason"]
        /\ \A n \in CustomerNodes(graph) :
              EdgesOut(graph, n, "CHURNED_DUE_TO") =
                  {"REASON:" \o df[i]["Primary Outcome Reason"].str :
                      i \in {j \in RowsNamed(n) :
                                df[j]["Primary Outcome Reason"]
                                    \notin {NaN, Str("")}}}
                  \cup
                  {"SUBREASON:" \o df[i]["Outcome Sub Reason"].str :
                      i \in {j \in RowsNamed(n) :
                                df[j]["Outcome Sub Reason"]
                                    \notin {NaN, Str(""), Str("N/A")}}}

\* a build of a table where one text is a primary reason and a sub-reason
C10_Witness ==
    /\ Built
    /\ \E t \in ReasonTextsOfBothKinds :
           \E n \in CustomerNodes(graph) :
               "SUBREASON:" \o t \in EdgesOut(graph, n, "CHURNED_DUE_TO")

-----------------------------------------------------------------------------
(* C11 *)

\* the customers with a BELONGS_TO edge to the segment's node
CustomersOf(g, segment) ==
    {n \in CustomerNodes(g) :
        "SEGMENT:" \o segment \in EdgesOut(g, n, "BELONGS_TO")}

\* the sum of a float attribute over a set of nodes, in hundredths
RECURSIVE SumAttr(_, _, _)
SumAttr(g, nodes, key) ==
    IF nodes = {} THEN 0
    ELSE LET n == CHOOSE x \in nodes : TRUE
         IN  g.attr[n][key].flt + SumAttr(g, nodes \ {n}, key)

\* C11: for every segment s with at least one customer,
\* get_churn_patterns(s) reports customer_count = the number of customers
\* query_customers_by_segment(s) returns, total_arr_lost = the sum of
\* arr_lost over those customers, avg_arr_lost = total_arr_lost /
\* customer_count and avg_tenure = the mean of their tenure_years; for the
\* scenario rows (A, Commercial, Pricing, $10,000.00), (B, Commercial,
\* Support, $5,000), (C, Enterprise, Pricing, $50,000) it reports for
\* Commercial customer_count 2, avg_arr_lost 7500 and top_reasons
\* Pricing: 1, Support: 1.
C11_PatternAggregates ==
    /\ (last.op = "get_churn_patterns"
            /\ CustomersOf(graph, last.args[1].str) # {})
       => LET cs == CustomersOf(graph, last.args[1].str)
              n == Cardinality(cs)
          IN  /\ last.ret["customer_count"] = n
              /\ n = Len(QueryCustomersBySegment(graph, last.args[1].str))
              /\ last.ret["total_arr_lost"] = SumAttr(graph, cs, "arr_lost")
              /\ last.ret["avg_arr_lost"].num * n
                     = last.ret["total_arr_lost"] * last.ret["avg_arr_lost"].den
              /\ last.ret["avg_tenure"].num * n
                     = SumAttr(graph, cs, "tenure_years")
                           * last.ret["avg_tenure"].den
    /\ (last.op = "get_churn_patterns" /\ df = ScenarioTable
            /\ last.args = <<Str("Commercial")>> /\ NumberOfNodes(graph) > 0)
       => /\ last.ret["customer_count"] = 2
          /\ last.ret["avg_arr_lost"] = [num |-> 750000, den |-> 1]
          /\ last.ret["top_reasons"] = <<<<"Pricing", 1>>, <<"Support", 1>>>>

\* get_churn_patterns("Commercial") on the graph of the scenario table
C11_Witness ==
    /\ last.op = "get_churn_patterns"
    /\ df = ScenarioTable
    /\ last.args = <<Str("Commercial")>>
    /\ DOMAIN last.ret # {}
    /\ last.ret["total_arr_lost"] = 1500000

-----------------------------------------------------------------------------
(* C12 *)

\* the number of customers of the segment with an edge of the relationship
\* to the node
CountInto(g, segment, relationship, node) ==
    Cardinality({n \in CustomersOf(g, segment) :
                    node \in EdgesOut(g, n, relationship)})

\* the position at which the walk over the segment's customers and their
\* out-edges first meets the name
FirstEncounter(g, segment, relationship, prefix, name) ==
    LET walk == CollectNames(g, QueryCustomersBySegment(g, segment),
                             relationship, prefix)
    IN  CHOOSE k \in 1..Len(walk) :
            walk[k] = name /\ \A j \in 1..(k - 1) : walk[j] # name

\* the names with the prefix that some customer of the segment has an edge
\* of the relationship to
NamesInto(g, segment, relationship, prefix) ==
    {SubSeq(v, Len(prefix) + 1, Len(v)) :
        v \in {w \in DOMAIN g.attr :
                  /\ StartsWith(w, prefix)
                  /\ CountInto(g, segment, relationship, w) > 0}}

\* a top list holds at most TopN names, each once and with its count, in
\* descending order of count and, among equal counts, in order of first
\* encounter; no name left out has a higher count than one in the list
TopListOk(top, g, segment, relationship, prefix) ==
    /\ Len(top) <= 5
    /\ \A k \in 1..Len(top) :
          /\ top[k][1] \in NamesInto(g, segment, relationship, prefix)
          /\ top[k][2] = CountInto(g, segment, relationship,
                                   prefix \o top[k][1])
    /\ \A j, k \in 1..Len(top) :
          j < k =>
              /\ top[j][1] # top[k][1]
              /\ top[j][2] >= top[k][2]
              /\ top[j][2] = top[k][2] =>
                     FirstEncounter(g, segment, relationship, prefix, top[j][1])
                         < FirstEncounter(g, segment, relationship, prefix,
                                          top[k][1])
    /\ \A name \in NamesInto(g, segment, relationship, prefix) :
          (\A k \in 1..Len(top) : top[k][1] # name) =>
              \A k \in 1..Len(top) :
                  CountInto(g, segment, relationship, prefix \o name)
                      <= top[k][2]

\* C12: get_churn_patterns(s) returns at most 5 reasons and at most 5
\* competitors, each list ordered by count descending with ties broken by
\* first-encountered order, and no omitted reason (competitor) has a
\* strictly higher count than a returned one.
C12_TopFive ==
    (last.op = "get_churn_patterns" /\ DOMAIN last.ret # {}) =>
        /\ TopListOk(last.ret["top_reasons"], graph, last.args[1].str,
                     "CHURNED_DUE_TO", "REASON:")
        /\ TopListOk(last.ret["top_competitors"], graph, last.args[1].str,
                     "SWITCHED_TO", "COMPETITOR:")

\* a segment with seven reasons, of which five are reported: the first has
\* a higher count than the second, the last two have equal counts, and a
\* reason with that count is left out
C12_Witness ==
    /\ last.op = "get_churn_patterns"
    /\ DOMAIN last.ret # {}
    /\ Len(last.ret["top_reasons"]) = 5
    /\ Cardinality(NamesInto(graph, last.args[1].str,
                             "CHURNED_DUE_TO", "REASON:")) > 5
    /\ last.ret["top_reasons"][1][2] > last.ret["top_reasons"][2][2]
    /\ last.ret["top_reasons"][4][2] = last.ret["top_reasons"][5][2]
    /\ Len(last.ret["top_competitors"]) = 5

-----------------------------------------------------------------------------
(* C13 *)

\* the number of times the node is listed among the successors of n
TimesSucc(g, n, target) ==
    Cardinality({k \in 1..Len(g.succ[n]) : g.succ[n][k] = target})

\* the customer of row i has exactly one BELONGS_TO edge to the Segment
\* node of the row's segment
SegmentEdgeOfRow(i) ==
    LET n == df[i]["Account Name"].str
        target == "SEGMENT:" \o df[i]["Account Segment"].str
    IN  /\ n \in CustomerNodes(graph)
        /\ target \in NodesOfType(graph, "Segment")
        /\ graph.attr[target]["name"] = df[i]["Account Segment"]
        /\ target \in EdgesOut(graph, n, "BELONGS_TO")
        /\ TimesSucc(graph, n, target) = 1

\* C13 as stated: for every row with a non-null segment, after build there
\* is exactly one BELONGS_TO edge from the row's customer node to the
\* Segment node of the row's segment value.
C13_EdgePerNonNullSegment ==
    Built =>
        \A i \in 1..Len(df) :
            df[i]["Account Segment"] # NaN => SegmentEdgeOfRow(i)

\* C13 amended: for every row whose segment is neither null nor the empty
\* string, after build there is exactly one BELONGS_TO edge from the row's
\* customer node to the Segment node of the row's segment value; a row
\* with an empty segment adds no BELONGS_TO edge.
C13_EdgePerPresentSegment ==
    Built =>
        \A i \in 1..Len(df) :
            /\ df[i]["Account Segment"] \notin {NaN, Str("")}
                   => SegmentEdgeOfRow(i)
            /\ df[i]["Account Segment"] = Str("")
                   => ~HasNode(graph, "SEGMENT:")

\* a build of a table with a row of an empty segment and a row of a
\* present one
C13_Witness ==
    /\ Built
    /\ \E i, j \in 1..Len(df) :
           /\ df[i]["Account Segment"] = Str("")
           /\ df[j]["Account Segment"] \notin {NaN, Str("")}
           /\ EdgesOut(graph, df[j]["Account Name"].str, "BELONGS_TO") # {}

-----------------------------------------------------------------------------
(* C14 *)

\* the places of the node list that hold a node of the type
ListedOfType(g, t) ==
    {k \in 1..Len(g.node) : Get(g.attr[g.node[k]], "type") = Str(t)}

\* the places of the node list that hold a node of the type with the name
ListedNamed(g, t, name) ==
    {k \in ListedOfType(g, t) : Get(g.attr[g.node[k]], "name") = Str(name)}

\* the places of the node list that hold the node id
ListedAs(g, node_id) == {k \in 1..Len(g.node) : g.node[k] = node_id}

\* the distinct non-null cells of a column
DistinctValues(col) ==
    {df[i][col] : i \in {j \in 1..Len(df) : df[j][col] # NaN}}

\* C14 as stated: after build, the number of Segment nodes equals the
\* number S of distinct segment values of the table, and each distinct
\* reason, competitor and product value is represented by one node however
\* many rows mention it.
C14_OneNodePerValue ==
    Built =>
        /\ Cardinality(ListedOfType(graph, "Segment"))
               = Cardinality(DistinctValues("Account Segment"))
        /\ \A t \in CellTexts("Primary Outcome Reason")
                       \cup CellTexts("Outcome Sub Reason") :
               Cardinality(ListedNamed(graph, "ChurnReason", t)) = 1
        /\ \A t \in CellTexts("Competitor 1") \cup CellTexts("Competitor 2") :
               Cardinality(ListedNamed(graph, "Competitor", t)) = 1
        /\ \A t \in ProductTexts :
               Cardinality(ListedNamed(graph, "Product", t)) = 1

\* the texts of each field that its extraction pass keeps
KeptPrimaryTexts == Texts("Primary Outcome Reason")
KeptSubTexts == Texts("Outcome Sub Reason") \ {"N/A"}
KeptCompetitorTexts ==
    (Texts("Competitor 1") \cup Texts("Competitor 2"))
        \ {"None mentioned", "N/A"}
KeptProductTexts == ProductTexts \ {"N/A", "None", ""}

\* C14 amended: after build, the number of Segment nodes equals the number
\* of distinct segment values that are neither null nor empty (not the
\* number of rows); each distinct primary reason other than '' is one
\* REASON: node, each distinct sub-reason other than '' and 'N/A' one
\* SUBREASON: node, each distinct competitor of either column other than
\* '', 'N/A' and 'None mentioned' one COMPETITOR: node, each distinct
\* product token other than '', 'N/A' and 'None' one PRODUCT: node, however
\* many rows mention it, and there are no other nodes of these types.
C14_OneNodePerKeptValue ==
    Built =>
        /\ Cardinality(ListedOfType(graph, "Segment"))
               = Cardinality(Texts("Account Segment"))
        /\ \A t \in Texts("Account Segment") :
               Cardinality(ListedAs(graph, "SEGMENT:" \o t)) = 1
        /\ \A t \in KeptPrimaryTexts :
               Cardinality(ListedAs(graph, "REASON:" \o t)) = 1
        /\ \A t \in KeptSubTexts :
               Cardinality(ListedAs(graph, "SUBREASON:" \o t)) = 1
        /\ Cardinality(ListedOfType(graph, "ChurnReason"))
               = Cardinality(KeptPrimaryTexts) + Cardinality(KeptSubTexts)
        /\ \A t \in KeptCompetitorTexts :
               Cardinality(ListedAs(graph, "COMPETITOR:" \o t)) = 1
        /\ Cardinality(ListedOfType(graph, "Competitor"))
               = Cardinality(KeptCompetitorTexts)
        /\ \A t \in KeptProductTexts :
               Cardinality(ListedAs(graph, "PRODUCT:" \o t)) = 1
        /\ Cardinality(ListedOfType(graph, "Product"))
               = Cardinality(KeptProductTexts)

\* a build of two rows that name the same segment, the same competitor and
\* the same product
C14_Witness ==
    /\ Built
    /\ Len(df) = 2
    /\ df[1]["Account Name"] # df[2]["Account Name"]
    /\ df[1]["Account Segment"] = df[2]["Account Segment"]
    /\ Cardinality(ListedOfType(graph, "Segment")) = 1
    /\ Cardinality(ListedOfType(graph, "Competitor")) = 1
    /\ \E t \in KeptProductTexts :
           \A i \in 1..2 :
               "PRODUCT:" \o t
                   \in EdgesOut(graph, df[i]["Account Name"].str, "USED_PRODUCT")

-----------------------------------------------------------------------------
(* C15 *)

\* the competitor cells for which C15 states that no edge is created
NoCompetitor == {Str("None mentioned"), Str("N/A"), Str(""), NaN}

\* the cells of the rows of the customer in the two competitor columns
\* that name a competitor
CompetitorCellsOf(n) ==
    {cell \in {df[i][col] : i \in RowsNamed(n),
                            col \in {"Competitor 1", "Competitor 2"}} :
        cell \notin NoCompetitor}

\* C15: for any row where Competitor 1 (Competitor 2) is "None mentioned",
\* "N/A", empty or missing, no SWITCHED_TO edge is created from that
\* customer for that column; otherwise exactly one SWITCHED_TO edge to that
\* competitor's node exists. So a customer's SWITCHED_TO edges are the
\* competitors its rows name, each once, and none goes to a node of a
\* placeholder.
C15_SwitchedToPerCompetitor ==
    Built =>
        /\ \A n \in CustomerNodes(graph) :
              /\ EdgesOut(graph, n, "SWITCHED_TO")
                     = {"COMPETITOR:" \o cell.str : cell \in CompetitorCellsOf(n)}
              /\ \A cell \in CompetitorCellsOf(n) :
                    /\ TimesSucc(graph, n, "COMPETITOR:" \o cell.str) = 1
                    /\ "COMPETITOR:" \o cell.str
                           \in NodesOfType(graph, "Competitor")
                    /\ graph.attr["COMPETITOR:" \o cell.str]["name"] = cell
        /\ \A t \in {"None mentioned", "N/A", ""} :
              Absent("COMPETITOR:" \o t)

\* a build where one customer's competitor column says "None mentioned"
\* and it has no SWITCHED_TO edge, and another customer names one
\* competitor in both columns and has one edge
C15_Witness ==
    /\ Built
    /\ \E i, j \in 1..Len(df) :
           /\ df[i]["Competitor 1"] = Str("None mentioned")
           /\ EdgesOut(graph, df[i]["Account Name"].str, "SWITCHED_TO") = {}
           /\ df[j]["Competitor 1"] = df[j]["Competitor 2"]
           /\ df[j]["Competitor 1"] \notin NoCompetitor
           /\ Cardinality(EdgesOut(graph, df[j]["Account Name"].str,
                                   "SWITCHED_TO")) = 1

-----------------------------------------------------------------------------
(* C16 *)

\* C16 as stated: after build on any table, every customer has at most two
\* outgoing CHURNED_DUE_TO edges and at most two outgoing SWITCHED_TO
\* edges.
C16_AtMostTwoEdges ==
    Built =>
        \A n \in CustomerNodes(graph) :
            /\ Cardinality(EdgesOut(graph, n, "CHURNED_DUE_TO")) <= 2
            /\ Cardinality(EdgesOut(graph, n, "SWITCHED_TO")) <= 2

\* C16 amended: after build on any table, every customer has at most two
\* outgoing CHURNED_DUE_TO edges (at most one to a primary reason and at
\* most one to a sub-reason) and at most two outgoing SWITCHED_TO edges for
\* each row that bears its account name; with one row per account name the
\* bounds are two and two.
C16_AtMostTwoEdgesPerRow ==
    Built =>
        \A n \in CustomerNodes(graph) :
            LET k == Cardinality(RowsNamed(n))
                churned == EdgesOut(graph, n, "CHURNED_DUE_TO")
            IN  /\ Cardinality(churned) <= 2 * k
                /\ Cardinality({m \in churned : StartsWith(m, "REASON:")}) <= k
                /\ Cardinality({m \in churned : StartsWith(m, "SUBREASON:")}) <= k
                /\ churned \subseteq NodesOfType(graph, "ChurnReason")
                /\ Cardinality(EdgesOut(graph, n, "SWITCHED_TO")) <= 2 * k

\* a build of two rows with one account name that leaves the customer with
\* four CHURNED_DUE_TO edges
C16_Witness ==
    /\ Built
    /\ \E n \in CustomerNodes(graph) :
           /\ Cardinality(RowsNamed(n)) = 2
           /\ Cardinality(EdgesOut(graph, n, "CHURNED_DUE_TO")) = 4

-----------------------------------------------------------------------------
(* C17 *)

\* the account names of the table
AccountNames == CellTexts("Account Name")

\* C17: when account names repeat, row order defines last-write-wins:
\* after build the customer node's attributes (segment, tenure_years,
\* arr_lost, dates, products, narrative) are those of the last row with
\* that account name, and exactly one Customer node exists for the name.
C17_LastWriteWins ==
    Built =>
        \A name \in AccountNames :
            LET row == df[LastRowNamed(name)]
            IN  /\ name \in CustomerNodes(graph)
                /\ Cardinality(ListedAs(graph, name)) = 1
                /\ graph.attr[name]["segment"] = row["Account Segment"]
                /\ graph.attr[name]["tenure_years"] =
                       (IF row["Tenure (years)"] = NaN THEN Flt(0)
                        ELSE row["Tenure (years)"])
                /\ graph.attr[name]["arr_lost"] =
                       Flt(ClaimedArrLost(row["Amount"]))
                /\ graph.attr[name]["churn_date"] = row["Close Date"]
                /\ graph.attr[name]["first_win_date"] = row["First Win Date"]
                /\ graph.attr[name]["products"] =
                       (IF row["Products (Rollup)"] = NaN THEN Str("")
                        ELSE row["Products (Rollup)"])
                /\ graph.attr[name]["churn_narrative"] =
                       (IF row["Lost Opportunity Details"] = NaN THEN Str("")
                        ELSE row["Lost Opportunity Details"])

\* a build of two rows with one account name that differ in segment,
\* tenure, amount, close date, products and narrative
C17_Witness ==
    /\ Built
    /\ Len(df) = 2
    /\ df[1]["Account Name"] = df[2]["Account Name"]
    /\ \A col \in {"Account Segment", "Tenure (years)", "Amount",
                   "Close Date", "Products (Rollup)",
                   "Lost Opportunity Details"} :
           df[1][col] # df[2][col]
    /\ graph.attr[df[2]["Account Name"].str]["segment"]
           = df[2]["Account Segment"]

-----------------------------------------------------------------------------
(* C18 *)

\* the fields C18 is about
OptionalFields ==
    {"Account Segment", "Primary Outcome Reason", "Outcome Sub Reason",
     "Competitor 1", "Competitor 2", "Products (Rollup)"}

\* every out-edge of the node
AllEdgesOut(g, n) == {v \in DOMAIN g.attr : HasEdge(g, n, v)}

\* C18: a row with a missing (null/NaN) segment, primary reason,
\* sub-reason, competitor or product field is not aborted: the build does
\* not raise, the customer node and every edge for the row's present
\* fields are created, and no node or edge stands for the missing field
\* (every edge of the customer goes to a node that an extraction pass made,
\* with its type and name).
C18_MissingFieldsSkipped ==
    last.op = "build_from_dataframe" =>
        \A i \in 1..Len(df) :
            (\E col \in OptionalFields : df[i][col] = NaN) =>
                LET row == df[i]
                    n == row["Account Name"].str
                IN  /\ last.raised = "none"
                    /\ n \in CustomerNodes(graph)
                    /\ row["Account Segment"] \notin {NaN, Str("")} =>
                           "SEGMENT:" \o row["Account Segment"].str
                               \in EdgesOut(graph, n, "BELONGS_TO")
                    /\ row["Primary Outcome Reason"] \notin {NaN, Str("")} =>
                           "REASON:" \o row["Primary Outcome Reason"].str
                               \in EdgesOut(graph, n, "CHURNED_DUE_TO")
                    /\ row["Outcome Sub Reason"]
                           \notin {NaN, Str(""), Str("N/A")} =>
                           "SUBREASON:" \o row["Outcome Sub Reason"].str
                               \in EdgesOut(graph, n, "CHURNED_DUE_TO")
                    /\ \A col \in {"Competitor 1", "Competitor 2"} :
                           row[col] \notin NoCompetitor =>
                               "COMPETITOR:" \o row[col].str
                                   \in EdgesOut(graph, n, "SWITCHED_TO")
                    /\ IsStr(row["Products (Rollup)"]) =>
                           \A t \in Elems(ProductTokens(
                                          row["Products (Rollup)"].str))
                                        \ {"N/A", "None", ""} :
                               "PRODUCT:" \o t
                                   \in EdgesOut(graph, n, "USED_PRODUCT")
                    /\ \A v \in AllEdgesOut(graph, n) :
                           /\ {"type", "name"} \subseteq DOMAIN graph.attr[v]
                           /\ IsStr(graph.attr[v]["name"])

\* a build with a row without segment and reasons whose customer has its
\* product edge, and a row without second competitor whose customer has
\* its segment and reason edges
C18_Witness ==
    /\ Built
    /\ \E i, j \in 1..Len(df) :
           /\ df[i]["Account Segment"] = NaN
           /\ df[i]["Primary Outcome Reason"] = NaN
           /\ EdgesOut(graph, df[i]["Account Name"].str, "USED_PRODUCT") # {}
           /\ EdgesOut(graph, df[i]["Account Name"].str, "BELONGS_TO") = {}
           /\ df[j]["Competitor 2"] = NaN
           /\ EdgesOut(graph, df[j]["Account Name"].str, "BELONGS_TO") # {}
           /\ EdgesOut(graph, df[j]["Account Name"].str, "CHURNED_DUE_TO") # {}

-----------------------------------------------------------------------------
(* C19 *)

QueryOps ==
    {"get_entity_by_type", "get_neighbors", "query_customers_by_reason",
     "query_customers_by_competitor", "query_customers_by_segment"}

\* C19: no query raises for a not-found input, in any graph state
\* including the empty graph: get_entity_by_type of an unknown type returns
\* an empty collection, get_neighbors of an absent node an empty list, and
\* query_customers_by_segment, _by_reason and _by_competitor of a name
\* without a node an empty list.
C19_NotFoundIsEmpty ==
    /\ last.op \in QueryOps => last.raised = "none"
    /\ (last.op = "get_entity_by_type"
            /\ last.args[1].str \notin
                   {"Customer", "Segment", "ChurnReason", "Competitor",
                    "Product", "Stakeholder"})
       => last.ret = {}
    /\ (last.op = "get_neighbors" /\ ~HasNode(graph, last.args[1].str))
       => last.ret = <<>>
    /\ (last.op = "query_customers_by_segment"
            /\ ~HasNode(graph, "SEGMENT:" \o last.args[1].str))
       => last.ret = <<>>
    /\ (last.op = "query_customers_by_reason"
            /\ ~HasNode(graph, "REASON:" \o last.args[1].str))
       => last.ret = <<>>
    /\ (last.op = "query_customers_by_competitor"
            /\ ~HasNode(graph, "COMPETITOR:" \o last.args[1].str))
       => last.ret = <<>>

\* get_entity_by_type of an unknown type on a graph that has entities
C19_Witness ==
    /\ last.op = "get_entity_by_type"
    /\ last.args = <<Str("Unknown")>>
    /\ entity_types["Customer"] # {}
    /\ last.ret = {}

-----------------------------------------------------------------------------
(* C20 *)

\* the places of the delimiters ',' and ';' of a product field, with the
\* place before its first and the place after its last character
Delimiters(s) ==
    {0, Len(s) + 1} \cup {k \in 1..Len(s) : Char(s, k) \in {",", ";"}}

\* the pieces between neighbouring delimiters, trimmed
TokensBetween(s) ==
    {Strip(SubSeq(s, a + 1, b - 1)) :
        <<a, b>> \in {p \in Delimiters(s) \X Delimiters(s) :
                        /\ p[1] < p[2]
                        /\ \A k \in Delimiters(s) : ~(p[1] < k /\ k < p[2])}}

\* the tokens of the product fields of the rows of the customer
ProductTokensOf(n) ==
    UNION {TokensBetween(df[i]["Products (Rollup)"].str) :
              i \in {j \in RowsNamed(n) : IsStr(df[j]["Products (Rollup)"])}}

\* the customer's USED_PRODUCT edges are the tokens of its rows outside the
\* set, each once, to Product nodes
ProductEdgesExcept(sentinels) ==
    \A n \in CustomerNodes(graph) :
        /\ EdgesOut(graph, n, "USED_PRODUCT")
               = {"PRODUCT:" \o t : t \in ProductTokensOf(n) \ sentinels}
        /\ \A v \in EdgesOut(graph, n, "USED_PRODUCT") :
               /\ TimesSucc(graph, n, v) = 1
               /\ v \in NodesOfType(graph, "Product")

\* C20 as stated: for each row, the customer gets one USED_PRODUCT edge per
\* distinct non-sentinel token ("N/A", "None mentioned", "None" and the
\* empty string being the sentinels) obtained by splitting the product
\* field on ',' and ';' and trimming whitespace, and no other USED_PRODUCT
\* edge from that row; a token repeated within the field yields a single
\* edge.
C20_EdgePerNonSentinelToken ==
    Built => ProductEdgesExcept(SentinelTexts)

\* C20 amended: for each row, the customer gets one USED_PRODUCT edge per
\* distinct token other than "N/A", "None" and the empty string obtained by
\* splitting the product field on ',' and ';' and trimming whitespace (a
\* token "None mentioned" gets its edge), and no other USED_PRODUCT edge
\* from that row; a token repeated within the field yields a single edge.
C20_EdgePerKeptToken ==
    Built => ProductEdgesExcept({"N/A", "None", ""})

\* a build of a row whose product field repeats a token and uses both
\* delimiters: its customer has two USED_PRODUCT edges
C20_Witness ==
    /\ Built
    /\ \E i \in 1..Len(df) :
           /\ df[i]["Products (Rollup)"] = Str("Core, Analytics;Core")
           /\ Cardinality(RowsNamed(df[i]["Account Name"].str)) = 1
           /\ EdgesOut(graph, df[i]["Account Name"].str, "USED_PRODUCT")
                  = {"PRODUCT:Core", "PRODUCT:Analytics"}

-----------------------------------------------------------------------------
(* C21 *)

ReaderOps == QueryOps \cup {"get_churn_patterns", "save_graph"}

\* C21: readers never mutate: every step that is a call of a query method
\* (get_entity_by_type, get_neighbors, query_customers_by_reason,
\* _by_competitor, _by_segment, get_churn_patterns) or of save_graph leaves
\* the graph's nodes, edges and attributes and the entity-type index as
\* they were, whatever calls came before it.
C21_ReadersNeverMutate ==
    [][last'.op \in ReaderOps
          => /\ graph' = graph
             /\ entity_types' = entity_types]_vars

\* a pattern query that found customers, on an instance whose graph, with
\* its edges, has been saved
C21_Witness ==
    /\ last.op = "get_churn_patterns"
    /\ last.ret # EmptyDict
    /\ NumberOfEdges(graph) > 0
    /\ \E p \in Paths :
           /\ files[p] # NoFile
           /\ Unpickle(files[p]) = graph

-----------------------------------------------------------------------------
(* C27 *)

\* the type attribute of the targets of the edges that carry a label
TypeOfLabel ==
    ("BELONGS_TO" :> "Segment") @@ ("CHURNED_DUE_TO" :> "ChurnReason")
    @@ ("SWITCHED_TO" :> "Competitor") @@ ("USED_PRODUCT" :> "Product")

\* the type attribute of a node, None when it has none
TypeOf(g, n) == IF HasNode(g, n) THEN Get(g.attr[n], "type") ELSE None

\* C27: after build on any table, every edge goes from a node whose type
\* attribute is Customer to a node that exists and whose type attribute
\* matches the edge's label, and no node id is shared by entities of two
\* kinds: the node of each account name is a Customer node and carries no
\* entity name, even when an account name has the form of a prefixed id.
C27_EdgesAreTyped ==
    Built =>
        /\ \A e \in DOMAIN graph.eattr :
               /\ TypeOf(graph, e[1]) = Str("Customer")
               /\ HasNode(graph, e[2])
               /\ graph.eattr[e]["relationship"].str \in DOMAIN TypeOfLabel
               /\ TypeOf(graph, e[2])
                      = Str(TypeOfLabel[graph.eattr[e]["relationship"].str])
        /\ \A n \in AccountNames :
               /\ TypeOf(graph, n) = Str("Customer")
               /\ "name" \notin DOMAIN graph.attr[n]

-----------------------------------------------------------------------------
(* C28 *)

\* the identifier under which the index lists a node: the node id of a
\* customer, the name attribute of any other entity
IdentOf(g, n) ==
    IF TypeOf(g, n) = Str("Customer") THEN n ELSE g.attr[n]["name"].str

IndexedNodes(g, t) == {IdentOf(g, n) : n \in NodesOfType(g, t)}

\* the sum of the sizes of the five index sets
IndexSize ==
    Cardinality(entity_types["Customer"]) + Cardinality(entity_types["Segment"])
    + Cardinality(entity_types["ChurnReason"])
    + Cardinality(entity_types["Competitor"])
    + Cardinality(entity_types["Product"])

IndexSetsAgree ==
    \A t \in EntityTypeNames : entity_types[t] = IndexedNodes(graph, t)

\* C28 (as stated): after build on any table the entity-type index agrees
\* with the graph: the index set of each type is the set of identifiers of
\* the nodes of that type, and the five set sizes add up to the graph's
\* node count.
C28_IndexAgrees ==
    Built => /\ IndexSetsAgree
             /\ IndexSize = NumberOfNodes(graph)

\* C28 (amended): after build the index set of each type is the set of
\* identifiers of the nodes of that type, and the graph's node count is the
\* sum of the five set sizes plus the number of texts that are both a
\* primary reason and a sub-reason (two nodes, one index entry).
C28_IndexAgreesByName ==
    Built => /\ IndexSetsAgree
             /\ NumberOfNodes(graph)
                    = IndexSize + Cardinality(KeptPrimaryTexts \cap KeptSubTexts)

\* a built graph in which a text names a primary reason and a sub-reason
C28_Witness ==
    /\ Built
    /\ KeptPrimaryTexts \cap KeptSubTexts # {}
    /\ NumberOfNodes(graph) > IndexSize
    /\ entity_types["Competitor"] # {}

-----------------------------------------------------------------------------
(* C29 *)

\* C29: build_from_dataframe is idempotent on one instance: on an instance
\* that has just been built from the table, a second call with the same
\* table returns and leaves the nodes and their order, the node
\* attributes, the edges, the edge attributes and the entity-type index
\* exactly as the first call left them.
C29_BuildIsIdempotent ==
    Built => /\ BuildFromDataframe(Self, df).raised = "none"
             /\ BuildFromDataframe(Self, df).self = Self

\* the second call on an instance built from a table that repeats an
\* account name, with edges
C29_Witness ==
    /\ Built
    /\ NumberOfEdges(graph) > 0
    /\ \E i, j \in 1..Len(df) :
           i # j /\ df[i]["Account Name"] = df[j]["Account Name"]
    /\ BuildFromDataframe(Self, df).raised = "none"

-----------------------------------------------------------------------------
(* C30 *)

\* the accounts that some row places in the segment and some row gives
\* the text as its primary reason
PrimaryChurners(segment, text) ==
    {n \in AccountNames :
        /\ \E i \in RowsNamed(n) : df[i]["Account Segment"] = Str(segment)
        /\ \E i \in RowsNamed(n) : df[i]["Primary Outcome Reason"] = Str(text)}

\* the accounts of the segment that some row gives the text as a
\* sub-reason and no row gives it as a primary reason
SubOnlyChurners(segment, text) ==
    {n \in AccountNames :
        /\ \E i \in RowsNamed(n) : df[i]["Account Segment"] = Str(segment)
        /\ \E i \in RowsNamed(n) : df[i]["Outcome Sub Reason"] = Str(text)
        /\ \A i \in RowsNamed(n) : df[i]["Primary Outcome Reason"] # Str(text)}

\* C30: the keys of top_reasons returned by get_churn_patterns are always
\* primary-reason texts, each counted once per customer of the segment
\* that has it as a primary reason: a sub-reason linked to the segment's
\* customers only through a sub-reason CHURNED_DUE_TO edge never appears in
\* top_reasons and never adds to a primary reason's count.
C30_TopReasonsArePrimary ==
    (last.op = "get_churn_patterns" /\ last.ret # EmptyDict)
    => LET segment == last.args[1].str
           top == last.ret["top_reasons"]
       IN  /\ \A k \in 1..Len(top) :
                  /\ top[k][1] \in KeptPrimaryTexts
                  /\ top[k][2]
                         = Cardinality(PrimaryChurners(segment, top[k][1]))
           /\ \A text \in KeptSubTexts \ KeptPrimaryTexts :
                  \A k \in 1..Len(top) : top[k][1] # text

-----------------------------------------------------------------------------
(* C22 *)

\* the nodes of the single-agent graph in the order of its edges, with and
\* without the web search
StagesWithSearch ==
    <<"understand_query", "retrieve_documents", "query_knowledge_graph",
      "search_web", "analyze_churn", "generate_recommendations",
      "synthesize_response">>

StagesWithoutSearch ==
    <<"understand_query", "retrieve_documents", "query_knowledge_graph",
      "analyze_churn", "generate_recommendations", "synthesize_response">>

IsPrefix(s, t) == Len(s) <= Len(t) /\ s = SubSeq(t, 1, Len(s))

\* the text that opens the error a stage records
ErrorLabel ==
    ("understand_query" :> "Query classification error: ")
    @@ ("retrieve_documents" :> "Retrieval error: ")
    @@ ("query_knowledge_graph" :> "KG query error: ")
    @@ ("search_web" :> "Web search error: ")
    @@ ("analyze_churn" :> "Analysis error: ")
    @@ ("generate_recommendations" :> "Recommendation error: ")

InAgentRun == flow.app = "churn_agent"

AgentRunEnded == flow.app = "churn_agent" /\ flow.pc = "END"

\* C22: every run of the single-agent workflow executes its stages in the
\* fixed order understand_query, retrieve_documents, query_knowledge_graph,
\* optionally search_web, analyze_churn, generate_recommendations,
\* synthesize_response, each at most once, and always reaches the end: a
\* stage whose model, retriever, search or graph call failed has its error
\* in the errors list of the response, and the stages after it still run.
C22_StagesInOrder ==
    /\ [](InAgentRun =>
             \/ IsPrefix(flow.visited, StagesWithSearch)
             \/ IsPrefix(flow.visited, StagesWithoutSearch))
    /\ [](AgentRunEnded =>
             /\ flow.visited \in {StagesWithSearch, StagesWithoutSearch}
             /\ "errors" \in DOMAIN flow.response
             /\ \A node \in flow.failed :
                    \E k \in 1..Len(flow.response.errors) :
                        StartsWith(flow.response.errors[k], ErrorLabel[node]))
    /\ (InAgentRun ~> AgentRunEnded)

\* a run that ended after the calls of six stages failed
C22_Witness ==
    /\ AgentRunEnded
    /\ flow.failed = DOMAIN ErrorLabel
    /\ flow.visited = StagesWithSearch

\* ---------------------------------------------------------------------
\* C26
\* ---------------------------------------------------------------------

SearchWords == {"industry", "benchmark", "trend"}

\* the run has left query_knowledge_graph
PastRouting ==
    /\ InAgentRun
    /\ Len(flow.visited) >= 3
    /\ flow.visited[3] = "query_knowledge_graph"

\* the stage the run took after query_knowledge_graph
RoutedTo == IF Len(flow.visited) >= 4 THEN flow.visited[4] ELSE flow.pc

SearchWanted ==
    /\ agent.tavily_search # None
    /\ \/ flow.state.query_type = Str("competitive_intel")
       \/ Len(flow.state.documents) < 2
       \/ \E word \in SearchWords : Contains(Lower(flow.query), word)

\* C26: in the single-agent workflow search_web runs if and only if Tavily
\* search is configured and the query type is competitive_intel, or fewer
\* than 2 documents were retrieved, or the query contains (in any letter
\* case) "industry", "benchmark" or "trend"; in every other run the flow
\* goes from query_knowledge_graph to analyze_churn and web_results stays
\* unset.
C26_SearchWhenWanted ==
    /\ PastRouting =>
           /\ RoutedTo = (IF SearchWanted THEN "search_web" ELSE "analyze_churn")
           /\ ~SearchWanted => flow.state.web_results = None
    /\ (InAgentRun /\ "search_web" \in Elems(flow.visited)) => PastRouting

\* a run with two documents whose capitalised query sent it to search_web,
\* and one that skipped the search with Tavily configured
C26_Witness ==
    /\ AgentRunEnded
    /\ agent.tavily_search # None
    /\ Len(flow.state.documents) = 2
    /\ flow.state.query_type # Str("competitive_intel")
    /\ flow.query = "Industry Trends in retention"
    /\ flow.visited = StagesWithSearch

C26_WitnessSkipped ==
    /\ AgentRunEnded
    /\ agent.tavily_search # None
    /\ flow.visited = StagesWithoutSearch
    /\ flow.state.web_results = None

\* ---------------------------------------------------------------------
\* C23
\* ---------------------------------------------------------------------

\* startup_event went through to the construction of the agents
StartedUp == last.op = "startup_event" /\ last.ret.churn_agent # None

\* C23: when the cached graph file exists, loading it through
\* ChurnKnowledgeGraph.load(path) at the API's startup succeeds, and both
\* agents are constructed with a knowledge graph that is not None and
\* holds the nodes and edges of the file.
C23_StartupLoadsCachedGraph ==
    (StartedUp /\ files[CachePath] # NoFile) =>
        \A self \in {last.ret.churn_agent,
                      last.ret.multi_agent_system.research_team} :
            /\ self.knowledge_graph # None
            /\ self.knowledge_graph.graph = Unpickle(files[CachePath])

\* the API started over the saved file of a built graph
C23_Witness ==
    /\ StartedUp
    /\ files[CachePath] # NoFile
    /\ Len(Unpickle(files[CachePath]).node) > 0

\* ---------------------------------------------------------------------
\* C24
\* ---------------------------------------------------------------------

\* the research team's gather step has just run, with a knowledge graph
\* supplied and a retriever whose call returned
GatheredWithGraph ==
    /\ AtNode("multi_agent", "search_external_sources")
    /\ agent.research_team.rag_retriever # None
    /\ agent.research_team.knowledge_graph # None
    /\ ~flow.retrieved.raised

SegmentHasCustomers(segment) ==
    Len(QueryCustomersBySegment(graph, segment)) > 0

\* the insight the step is to give for a segment: its customer count and
\* its top reason, N/A when it has none
ExpectedInsight(segment) ==
    LET top == GetChurnPatterns(graph, segment)["top_reasons"]
    IN  segment \o ": "
        \o NatStr(Len(QueryCustomersBySegment(graph, segment)))
        \o " customers, top reason: "
        \o (IF Len(top) = 0 THEN "N/A" ELSE top[1][1])

\* C24: in the research team's gather step, when a knowledge graph is
\* supplied and document retrieval succeeded, the step keeps the retrieved
\* documents in rag_documents, records no error, and sets key_insights to
\* one insight per segment among Commercial, SMB, Mid-Market, Strategic,
\* Enterprise that has customers, naming that segment's top reason.
C24_GatherKeepsDocumentsAndInsights ==
    GatheredWithGraph =>
        LET segments == SelectSeq(AgentSegments, SegmentHasCustomers)
        IN  /\ flow.team.rag_documents = flow.retrieved.value
            /\ flow.team.errors = <<>>
            /\ flow.team.key_insights =
                   [k \in 1..Len(segments) |-> ExpectedInsight(segments[k])]

\* the step ran over a graph with a segment whose customers have a
\* primary reason, and the retriever returned two documents
C24_Witness ==
    /\ GatheredWithGraph
    /\ Len(flow.retrieved.value) = 2
    /\ \E k \in 1..Len(AgentSegments) :
           /\ SegmentHasCustomers(AgentSegments[k])
           /\ Len(GetChurnPatterns(graph, AgentSegments[k])["top_reasons"]) > 0

\* the same over a graph whose only customer has no churn reason
C24_WitnessNoReason ==
    /\ GatheredWithGraph
    /\ df = <<RowNoReason>>
    /\ flow.team.key_insights = <<"SMB: 1 customers, top reason: N/A">>

\* ---------------------------------------------------------------------
\* C25
\* ---------------------------------------------------------------------

StageMarkers ==
    <<"classification_complete", "research_complete", "writing_complete",
      "synthesis_complete">>

\* s is made of elements of t, without repetition, in t's order
IsSubsequence(s, t) ==
    \E keep \in SUBSET (1..Len(t)) :
        s = SelectSeq(t, LAMBDA m : \E k \in keep : t[k] = m)

SystemRunEnded == flow.app = "multi_agent" /\ flow.pc = "END"

\* the classification, the research team's run, the writing team's run
\* failed
ClassificationFailed ==
    \E k \in 1..Len(flow.response.errors) :
        StartsWith(flow.response.errors[k], "Classification error")

ResearchFailed == flow.research_results.errors # <<>>

WritingFailed == flow.writing_results.errors # <<>>

\* the order of the markers alone
C25_StagesAreSubsequence ==
    SystemRunEnded =>
        IsSubsequence(flow.response.processing_stages, StageMarkers)

\* C25: the processing_stages of a result of the multi-agent coordinator is
\* an in-order subsequence of classification_complete, research_complete,
\* writing_complete, synthesis_complete, and a stage's marker is present
\* only if the stage completed without error: research_complete
\* (writing_complete) is absent whenever the research (writing) team's run
\* failed.
C25_MarkersOnlyOnSuccess ==
    SystemRunEnded =>
        LET stages == Elems(flow.response.processing_stages)
        IN  /\ IsSubsequence(flow.response.processing_stages, StageMarkers)
            /\ "classification_complete" \in stages => ~ClassificationFailed
            /\ "research_complete" \in stages => ~ResearchFailed
            /\ "writing_complete" \in stages => ~WritingFailed

\* a run whose classification failed and whose teams both reported errors
C25_Witness ==
    /\ SystemRunEnded
    /\ ClassificationFailed
    /\ ResearchFailed
    /\ WritingFailed

====
